---- MODULE Spec2Model ----
(***************************************************************************)
(* Model of the craft tree optimizer: the App state of src/main.rs, its    *)
(* update handler (one action per Message) and the compilation of the      *)
(* recipe collection and the item ledger into a linear program.            *)
(*                                                                         *)
(* Numbers.  f64 amounts are modelled as integers.  A product probability  *)
(* is a fixed-point number with denominator Den (0.5 is 50), so every      *)
(* coefficient, produced total and consumed total is kept in units of      *)
(* 1/Den: an ingredient of quantity q has coefficient q * Den, a product   *)
(* (q, p) has coefficient q * p, and a target t is the right-hand side     *)
(* t * Den.  The usage value of a recipe ranges over 0..UseLimit(lp).      *)
(*                                                                         *)
(* Option<T> is a sequence of length at most one: None is << >> and        *)
(* Some(x) is <<x>>.                                                        *)
(***************************************************************************)
EXTENDS Integers, Sequences, FiniteSets, TLC

VARIABLES
    recipes,          \* App.recipes: Vec<EditableContent>
    known_items,      \* App.known_items: item -> (count, target, raw)
    error,            \* App.error: Option<String>
    recipe_uses,      \* App.recipe_uses: Option<Vec<f64>>
    item_stats,       \* App.item_stats: Option<HashMap<Item, (f64, f64)>>
    unsaved_changes,  \* App.unsaved_changes
    pending,          \* messages handed to the runtime by Task::done, not yet delivered
    last,             \* what the last processed message did (history)
    scale,            \* App.scale: TargetAmount
    path,             \* App.path: Option<PathBuf>
    import_error,     \* App.import_error: Option<ImportError>
    save_error,       \* App.save_error: Option<SaveError>
    save_popup,       \* App.save_popup: Option<Message>
    disk,             \* the files: path -> Option<AppSave>
    closed,           \* window::close(id) has run
    dont_save,        \* the user has pressed "Don't save" in the popup (history)
    bank              \* a RecipeBank: its table and its recipes

\* The fields of the file menu and of the save popup, and what they act on.
file_vars == <<scale, path, save_popup, disk, closed, dont_save>>

vars == <<recipes, known_items, error, recipe_uses, item_stats,
          unsaved_changes, pending, last,
          import_error, save_error, file_vars, bank>>

----------------------------------------------------------------------------
(* Bounds *)

MaxRecipes == 2    \* recipes of a saved file; indices range over 1..MaxRecipes + 1
MaxAdded == 1      \* recipes AddRecipe creates from the empty application
MaxEntries == 1    \* lines of each list of a recipe under construction
MaxNewItems == 1   \* items the builder of the empty application names
MaxAmount == 1     \* target amounts and raw costs
MaxUse == 2        \* usage value of a recipe
MaxPending == 1    \* messages of Task::done not yet delivered
MaxCount == 2      \* reference count of a ledger item
MaxIngrLines == 3  \* ingredient lines of the builder driven on its own
MaxProdLines == 2  \* product lines of the builder driven on its own
MaxRawLines == 2   \* entries of each list handed to Recipe::new

(* Program constants *)

Den == 100
DefaultAmount == 1
DefaultQuantity == 1
DefaultProbability == 100
MaxPercent == 100
MaxU8 == 255

----------------------------------------------------------------------------
(* Small input sets *)

ItemOrder == <<"ingot", "ore", "wood">>
Items == {ItemOrder[k] : k \in 1..Len(ItemOrder)}
NewItems == {ItemOrder[k] : k \in 1..MaxNewItems}
Quantities == {1, 2}
Percents == {50, 100}
Amounts == 0..MaxAmount
Indices == 1..(MaxRecipes + 1)
EntryIndices == 1..(MaxEntries + 1)

None == << >>
Some(x) == <<x>>
IsSome(o) == Len(o) = 1
Unwrap(o) == o[1]

Min2(a, b) == IF a < b THEN a ELSE b
Max2(a, b) == IF a > b THEN a ELSE b

RemoveAt(s, k) == [j \in 1..(Len(s) - 1) |-> IF j < k THEN s[j] ELSE s[j + 1]]

----------------------------------------------------------------------------
(* parsed_input::Content<T, E>: the last parsed value and whether the text  *)
(* currently in the field parses.                                           *)

Content(v) == [value |-> v, valid |-> TRUE]

\* Parsed<T, E> is Ok(v), here <<v>>, or Err, here << >>.
ContentUpdate(c, parsed) ==
    IF IsSome(parsed) THEN [value |-> Unwrap(parsed), valid |-> TRUE]
    ELSE [value |-> c.value, valid |-> FALSE]

QuantityNew(n) == IF n = 0 THEN None ELSE Some(n)

\* Faulty variant of ProbabilityNew: the percentage 0 is accepted.
ProbabilityNewZero(p) == IF p > MaxPercent THEN None ELSE Some(p)

ProbabilityNew(p) == IF p <= 0 \/ p > MaxPercent THEN None ELSE Some(p)

\* <Quantity as FromStr>::from_str on the decimal text of the number n: the
\* text parses as a u8 only up to MaxU8, and 0 is refused.
QuantityFromStr(n) ==
    IF n > MaxU8 THEN [tag |-> "Parse", value |-> 0]
    ELSE IF QuantityNew(n) = None THEN [tag |-> "Zero", value |-> 0]
    ELSE [tag |-> "Ok", value |-> Unwrap(QuantityNew(n))]

\* <Probability as FromStr>::from_str on the decimal text of the number n.
ProbabilityFromStr(n) ==
    IF n > MaxU8 THEN [tag |-> "Parse", value |-> 0]
    ELSE IF ProbabilityNew(n) = None THEN [tag |-> "Range", value |-> 0]
    ELSE [tag |-> "Ok", value |-> Unwrap(ProbabilityNew(n))]

\* The Parsed value a text field hands to the builder: Ok(v) or Err.
ParsedOf(res) == IF res.tag = "Ok" THEN Some(res.value) ELSE None

UnwrapOr(o, d) == IF IsSome(o) THEN Unwrap(o) ELSE d

\* f32::round of num / den for num >= 0 (half away from zero).
RoundDiv(num, den) == (2 * num + den) \div (2 * den)

Clamp(v, lo, hi) == Max2(lo, Min2(v, hi))

----------------------------------------------------------------------------
(* Recipes *)

RecipeNew(ingredients, products) ==
    [kind |-> "Built", ingredients |-> ingredients, products |-> products]

BuilderStateNew ==
    [kind |-> "Builder", ingredients |-> << >>, products |-> << >>]

IsBuilt(r) == r.kind = "Built"

\* Faulty variant of BuilderStateFromRecipe: every quantity is shown as the
\* default one.
BuilderStateFromRecipeDefaulting(r) ==
    [kind |-> "Builder",
     ingredients |->
        [k \in 1..Len(r.ingredients) |->
            [item |-> r.ingredients[k].item, qty |-> Content(DefaultQuantity)]],
     products |->
        [k \in 1..Len(r.products) |->
            [item |-> r.products[k].item,
             qty |-> Content(DefaultQuantity),
             proba |-> Content(UnwrapOr(
                 ProbabilityNew(Clamp(RoundDiv(r.products[k].prob * 100, Den), 1, 100)),
                 DefaultProbability))]]]

BuilderStateFromRecipe(r) ==
    [kind |-> "Builder",
     ingredients |->
        [k \in 1..Len(r.ingredients) |->
            [item |-> r.ingredients[k].item,
             qty |-> Content(UnwrapOr(QuantityNew(r.ingredients[k].qty), DefaultQuantity))]],
     products |->
        [k \in 1..Len(r.products) |->
            [item |-> r.products[k].item,
             qty |-> Content(UnwrapOr(QuantityNew(r.products[k].qty), DefaultQuantity)),
             proba |-> Content(UnwrapOr(
                 ProbabilityNew(Clamp(RoundDiv(r.products[k].prob * 100, Den), 1, 100)),
                 DefaultProbability))]]]

BuilderStateBuild(b) ==
    RecipeNew(
        [k \in 1..Len(b.ingredients) |->
            [item |-> b.ingredients[k].item, qty |-> b.ingredients[k].qty.value]],
        [k \in 1..Len(b.products) |->
            [item |-> b.products[k].item,
             qty |-> b.products[k].qty.value,
             prob |-> (b.products[k].proba.value * Den) \div 100]])

\* The items of a recipe in the order inputs.chain(outputs).
RecipeItems(r) ==
    [k \in 1..(Len(r.ingredients) + Len(r.products)) |->
        IF k <= Len(r.ingredients) THEN r.ingredients[k].item
        ELSE r.products[k - Len(r.ingredients)].item]

----------------------------------------------------------------------------
(* The item ledger: a map from item to (count, target, raw) *)

LedgerEntry(count, target, raw) == [count |-> count, target |-> target, raw |-> raw]

LedgerInsert(ledger, item, entry) ==
    [x \in (DOMAIN ledger) \cup {item} |-> IF x = item THEN entry ELSE ledger[x]]

LedgerRemove(ledger, item) ==
    [x \in (DOMAIN ledger) \ {item} |-> ledger[x]]

\* One step of the loop of Message::Build over inputs.chain(outputs).
AddItem(ledger, item) ==
    IF item \in DOMAIN ledger
    THEN [ledger EXCEPT ![item].count = @ + 1]
    ELSE LedgerInsert(ledger, item, LedgerEntry(0, None, None))

RECURSIVE AddItemsFrom(_, _, _)
AddItemsFrom(ledger, items, k) ==
    IF k > Len(items) THEN ledger
    ELSE AddItemsFrom(AddItem(ledger, items[k]), items, k + 1)

add_recipe_items(ledger, r) ==
    IF IsBuilt(r) THEN AddItemsFrom(ledger, RecipeItems(r), 1) ELSE ledger

\* Faulty variant of RemoveItem: the item is evicted whatever its count.
RemoveItemEager(ledger, item) ==
    IF item \in DOMAIN ledger THEN LedgerRemove(ledger, item) ELSE ledger

\* One step of the loop of remove_recipe_items! over inputs.chain(outputs).
RemoveItem(ledger, item) ==
    IF item \in DOMAIN ledger
    THEN IF ledger[item].count = 0
         THEN LedgerRemove(ledger, item)
         ELSE [ledger EXCEPT ![item].count = @ - 1]
    ELSE ledger

RECURSIVE RemoveItemsFrom(_, _, _)
RemoveItemsFrom(ledger, items, k) ==
    IF k > Len(items) THEN ledger
    ELSE RemoveItemsFrom(RemoveItem(ledger, items[k]), items, k + 1)

remove_recipe_items(ledger, r) ==
    IF IsBuilt(r) THEN RemoveItemsFrom(ledger, RecipeItems(r), 1) ELSE ledger

----------------------------------------------------------------------------
(* EditableContent::perform and BuilderState::perform *)

PerformBuild(r) == IF IsBuilt(r) THEN r ELSE BuilderStateBuild(r)

PerformEdit(r) == IF IsBuilt(r) THEN BuilderStateFromRecipe(r) ELSE r

\* Faulty variant of BuilderPerform: DelIngr with a valid index removes the
\* first ingredient line, and EditProdItem with an index past the end changes
\* the last product line.
BuilderPerformMisaddressed(b, a) ==
    CASE a.op = "AddProduct" ->
            [b EXCEPT !.products = Append(@,
                [item |-> a.item, qty |-> Content(a.qty), proba |-> Content(a.proba)])]
      [] a.op = "AddIngredient" ->
            [b EXCEPT !.ingredients = Append(@,
                [item |-> a.item, qty |-> Content(a.qty)])]
      [] a.op = "EditProdItem" ->
            IF b.products # << >>
            THEN [b EXCEPT !.products[Min2(a.index, Len(b.products))].item = a.item] ELSE b
      [] a.op = "EditProdQty" ->
            IF a.index \in 1..Len(b.products)
            THEN [b EXCEPT !.products[a.index].qty = ContentUpdate(@, a.qty)] ELSE b
      [] a.op = "EditProdProba" ->
            IF a.index \in 1..Len(b.products)
            THEN [b EXCEPT !.products[a.index].proba = ContentUpdate(@, a.proba)] ELSE b
      [] a.op = "EditIngrItem" ->
            IF a.index \in 1..Len(b.ingredients)
            THEN [b EXCEPT !.ingredients[a.index].item = a.item] ELSE b
      [] a.op = "EditIngrQty" ->
            IF a.index \in 1..Len(b.ingredients)
            THEN [b EXCEPT !.ingredients[a.index].qty = ContentUpdate(@, a.qty)] ELSE b
      [] a.op = "DelProd" ->
            IF a.index \in 1..Len(b.products)
            THEN [b EXCEPT !.products = RemoveAt(@, a.index)] ELSE b
      [] a.op = "DelIngr" ->
            IF a.index \in 1..Len(b.ingredients)
            THEN [b EXCEPT !.ingredients = RemoveAt(@, 1)] ELSE b

\* A BuilderAction is a record [op, index, item, qty, proba]; qty and proba
\* are plain values for the Add actions and Parsed values for the edits.
BuilderPerform(b, a) ==
    CASE a.op = "AddProduct" ->
            [b EXCEPT !.products = Append(@,
                [item |-> a.item, qty |-> Content(a.qty), proba |-> Content(a.proba)])]
      [] a.op = "AddIngredient" ->
            [b EXCEPT !.ingredients = Append(@,
                [item |-> a.item, qty |-> Content(a.qty)])]
      [] a.op = "EditProdItem" ->
            IF a.index \in 1..Len(b.products)
            THEN [b EXCEPT !.products[a.index].item = a.item] ELSE b
      [] a.op = "EditProdQty" ->
            IF a.index \in 1..Len(b.products)
            THEN [b EXCEPT !.products[a.index].qty = ContentUpdate(@, a.qty)] ELSE b
      [] a.op = "EditProdProba" ->
            IF a.index \in 1..Len(b.products)
            THEN [b EXCEPT !.products[a.index].proba = ContentUpdate(@, a.proba)] ELSE b
      [] a.op = "EditIngrItem" ->
            IF a.index \in 1..Len(b.ingredients)
            THEN [b EXCEPT !.ingredients[a.index].item = a.item] ELSE b
      [] a.op = "EditIngrQty" ->
            IF a.index \in 1..Len(b.ingredients)
            THEN [b EXCEPT !.ingredients[a.index].qty = ContentUpdate(@, a.qty)] ELSE b
      [] a.op = "DelProd" ->
            IF a.index \in 1..Len(b.products)
            THEN [b EXCEPT !.products = RemoveAt(@, a.index)] ELSE b
      [] a.op = "DelIngr" ->
            IF a.index \in 1..Len(b.ingredients)
            THEN [b EXCEPT !.ingredients = RemoveAt(@, a.index)] ELSE b

PerformBuilderAction(r, a) == IF IsBuilt(r) THEN r ELSE BuilderPerform(r, a)

\* Faulty variant of EditablePerform: Edit empties a recipe under construction.
EditablePerformResetting(r, action) ==
    CASE action.kind = "Build" -> PerformBuild(r)
      [] action.kind = "Edit" -> IF IsBuilt(r) THEN PerformEdit(r) ELSE BuilderStateNew
      [] action.kind = "BuilderAction" -> PerformBuilderAction(r, action.a)

\* EditableContent::perform; an EditableAction is a record [kind, a] where a
\* is the BuilderAction of kind "BuilderAction".
EditablePerform(r, action) ==
    CASE action.kind = "Build" -> PerformBuild(r)
      [] action.kind = "Edit" -> PerformEdit(r)
      [] action.kind = "BuilderAction" -> PerformBuilderAction(r, action.a)

----------------------------------------------------------------------------
(* Linear expressions over the recipe variables: good_lp::Expression with   *)
(* one coefficient per variable, here a sequence of n coefficients.         *)

ExprDefault(n) == [i \in 1..n |-> 0]

\* Expression::add_mul(coef, variable)
ExprAddMulVar(e, coef, index) == [e EXCEPT ![index] = @ + coef]

\* Expression::add_mul(coef, expression)
ExprAddMul(e, coef, f) == [i \in DOMAIN e |-> e[i] + coef * f[i]]

ExprSub(e, f) == [i \in DOMAIN e |-> e[i] - f[i]]

RECURSIVE EvalUpTo(_, _, _)
EvalUpTo(e, x, k) == IF k = 0 THEN 0 ELSE EvalUpTo(e, x, k - 1) + e[k] * x[k]

\* Solution::eval(expression) at the usage vector x
Eval(e, x) == EvalUpTo(e, x, Len(e))

----------------------------------------------------------------------------
(* Message::Compute, expression build (model builder) *)

\* The entries of a Built recipe as (item, coefficient, product) in the order
\* ingredients.chain(products); coefficients are in units of 1/Den.
RecipeEntries(r) ==
    [k \in 1..(Len(r.ingredients) + Len(r.products)) |->
        IF k <= Len(r.ingredients)
        THEN [item |-> r.ingredients[k].item,
              qty |-> r.ingredients[k].qty * Den,
              product |-> FALSE]
        ELSE [item |-> r.products[k - Len(r.ingredients)].item,
              qty |-> r.products[k - Len(r.ingredients)].qty
                        * r.products[k - Len(r.ingredients)].prob,
              product |-> TRUE]]

\* Faulty variant of UpdateEntry: the coefficient is set, not accumulated.
UpdateEntryOverwrite(exprs, entry, index) ==
    IF entry.product
    THEN [exprs EXCEPT ![entry.item].prod[index] = entry.qty]
    ELSE [exprs EXCEPT ![entry.item].uses[index] = entry.qty]

\* The update of one entry of recipe `index`.
UpdateEntry(exprs, entry, index) ==
    IF entry.product
    THEN [exprs EXCEPT ![entry.item].prod = ExprAddMulVar(@, entry.qty, index)]
    ELSE [exprs EXCEPT ![entry.item].uses = ExprAddMulVar(@, entry.qty, index)]

BuildOk(exprs) == [tag |-> "Ok", exprs |-> exprs, item |-> ""]
BuildNotBuilt == [tag |-> "NotBuilt", exprs |-> << >>, item |-> ""]
BuildMissing(item) == [tag |-> "Missing", exprs |-> << >>, item |-> item]

RECURSIVE UpdateEntriesFrom(_, _, _, _)
UpdateEntriesFrom(exprs, entries, index, k) ==
    IF k > Len(entries) THEN BuildOk(exprs)
    ELSE IF entries[k].item \notin DOMAIN exprs THEN BuildMissing(entries[k].item)
    ELSE UpdateEntriesFrom(UpdateEntry(exprs, entries[k], index), entries, index, k + 1)

\* Faulty variant of BuildExpressionsFrom: an unfinished recipe is skipped.
RECURSIVE BuildExpressionsSkipping(_, _, _)
BuildExpressionsSkipping(exprs, recs, index) ==
    IF index > Len(recs) THEN BuildOk(exprs)
    ELSE IF ~IsBuilt(recs[index]) THEN BuildExpressionsSkipping(exprs, recs, index + 1)
    ELSE LET r == UpdateEntriesFrom(exprs, RecipeEntries(recs[index]), index, 1)
         IN  IF r.tag = "Ok" THEN BuildExpressionsSkipping(r.exprs, recs, index + 1)
             ELSE r

RECURSIVE BuildExpressionsFrom(_, _, _)
BuildExpressionsFrom(exprs, recs, index) ==
    IF index > Len(recs) THEN BuildOk(exprs)
    ELSE IF ~IsBuilt(recs[index]) THEN BuildNotBuilt
    ELSE LET r == UpdateEntriesFrom(exprs, RecipeEntries(recs[index]), index, 1)
         IN  IF r.tag = "Ok" THEN BuildExpressionsFrom(r.exprs, recs, index + 1)
             ELSE r

BuildExpressions(recs, ledger) ==
    BuildExpressionsFrom(
        [item \in DOMAIN ledger |->
            [prod |-> ExprDefault(Len(recs)), uses |-> ExprDefault(Len(recs))]],
        recs, 1)

----------------------------------------------------------------------------
(* Message::Compute, constraint build (constraint compiler) *)

\* expression >> rhs, named
Geq(name, expression, rhs) == [name |-> name, lhs |-> expression, rhs |-> rhs]

\* Faulty variants of CompileItem, each with one slip.
\* The target amount is dropped from the constraint.
CompileItemTargetDropped(acc, item, entry, expr) ==
    LET expression == ExprSub(expr.prod, expr.uses)
    IN  IF IsSome(entry.target)
        THEN [acc EXCEPT !.constraints = Append(@, Geq(item, expression, 0))]
        ELSE IF IsSome(entry.raw)
        THEN [acc EXCEPT !.total_cost =
                 ExprAddMul(@, -(Unwrap(entry.raw).value), expression)]
        ELSE [acc EXCEPT !.constraints = Append(@, Geq(item, expression, 0))]

\* An item with no annotation gets no constraint.
CompileItemNoBalance(acc, item, entry, expr) ==
    LET expression == ExprSub(expr.prod, expr.uses)
    IN  IF IsSome(entry.target)
        THEN [acc EXCEPT !.constraints =
                 Append(@, Geq(item, expression, Unwrap(entry.target).value * Den))]
        ELSE IF IsSome(entry.raw)
        THEN [acc EXCEPT !.total_cost =
                 ExprAddMul(@, -(Unwrap(entry.raw).value), expression)]
        ELSE acc

\* The cost is added with the sign of the net production.
CompileItemCostSign(acc, item, entry, expr) ==
    LET expression == ExprSub(expr.prod, expr.uses)
    IN  IF IsSome(entry.target)
        THEN [acc EXCEPT !.constraints =
                 Append(@, Geq(item, expression, Unwrap(entry.target).value * Den))]
        ELSE IF IsSome(entry.raw)
        THEN [acc EXCEPT !.total_cost =
                 ExprAddMul(@, Unwrap(entry.raw).value, expression)]
        ELSE [acc EXCEPT !.constraints = Append(@, Geq(item, expression, 0))]

\* The raw cost is charged whether or not the item has a target.
CompileItemCostWithTarget(acc, item, entry, expr) ==
    LET expression == ExprSub(expr.prod, expr.uses)
        costed == IF IsSome(entry.raw)
                  THEN [acc EXCEPT !.total_cost =
                           ExprAddMul(@, -(Unwrap(entry.raw).value), expression)]
                  ELSE acc
    IN  IF IsSome(entry.target)
        THEN [costed EXCEPT !.constraints =
                 Append(@, Geq(item, expression, Unwrap(entry.target).value * Den))]
        ELSE IF IsSome(entry.raw) THEN costed
        ELSE [acc EXCEPT !.constraints = Append(@, Geq(item, expression, 0))]

\* The target bounds consumed - produced.
CompileItemTargetReversed(acc, item, entry, expr) ==
    LET expression == ExprSub(expr.prod, expr.uses)
    IN  IF IsSome(entry.target)
        THEN [acc EXCEPT !.constraints =
                 Append(@, Geq(item, ExprSub(expr.uses, expr.prod),
                               Unwrap(entry.target).value * Den))]
        ELSE IF IsSome(entry.raw)
        THEN [acc EXCEPT !.total_cost =
                 ExprAddMul(@, -(Unwrap(entry.raw).value), expression)]
        ELSE [acc EXCEPT !.constraints = Append(@, Geq(item, expression, 0))]

\* The body of the loop over known_items for one item.
CompileItem(acc, item, entry, expr) ==
    LET expression == ExprSub(expr.prod, expr.uses)
    IN  IF IsSome(entry.target)
        THEN [acc EXCEPT !.constraints =
                 Append(@, Geq(item, expression, Unwrap(entry.target).value * Den))]
        ELSE IF IsSome(entry.raw)
        THEN [acc EXCEPT !.total_cost =
                 ExprAddMul(@, -(Unwrap(entry.raw).value), expression)]
        ELSE [acc EXCEPT !.constraints = Append(@, Geq(item, expression, 0))]

RECURSIVE CompileFrom(_, _, _, _)
CompileFrom(acc, ledger, exprs, k) ==
    IF k > Len(ItemOrder) THEN acc
    ELSE IF ItemOrder[k] \in DOMAIN ledger
    THEN CompileFrom(CompileItem(acc, ItemOrder[k], ledger[ItemOrder[k]], exprs[ItemOrder[k]]),
                     ledger, exprs, k + 1)
    ELSE CompileFrom(acc, ledger, exprs, k + 1)

\* The problem handed to the solver: n variables >= 0, the objective to
\* minimise and the constraints.
Compile(n, ledger, exprs) ==
    LET acc == CompileFrom([total_cost |-> ExprDefault(n), constraints |-> << >>],
                           ledger, exprs, 1)
    IN  [n |-> n, objective |-> acc.total_cost, constraints |-> acc.constraints]

----------------------------------------------------------------------------
(* The solver (good_lp with clarabel), as the code uses it: a problem      *)
(* with no feasible point or with an unbounded objective is an Err; any    *)
(* other problem yields a solution, which is an optimum when its status is *)
(* Optimal and a feasible point when the solver stopped before proving     *)
(* optimality.                                                              *)

\* The largest right-hand side of the constraints of lp (0 without constraints).
MaxRhs(lp) ==
    IF lp.constraints = << >> THEN 0
    ELSE CHOOSE m \in {lp.constraints[k].rhs : k \in 1..Len(lp.constraints)} :
            \A k \in 1..Len(lp.constraints) : lp.constraints[k].rhs <= m

\* The usage values considered for lp: 0..MaxUse, widened so that a usage one
\* above the largest required amount is still a value.
UseLimit(lp) == Max2(MaxUse, 1 + MaxRhs(lp) \div Den)

UseVectors(lp) == [1..lp.n -> 0..UseLimit(lp)]

Satisfies(x, c) == Eval(c.lhs, x) >= c.rhs

IsFeasible(lp, x) == \A k \in 1..Len(lp.constraints) : Satisfies(x, lp.constraints[k])

FeasibleSet(lp) == {x \in UseVectors(lp) : IsFeasible(lp, x)}

\* A direction along which every constraint stays satisfied and the cost
\* strictly decreases.
IsUnbounded(lp) ==
    \E d \in UseVectors(lp) :
        /\ \A k \in 1..Len(lp.constraints) : Eval(lp.constraints[k].lhs, d) >= 0
        /\ Eval(lp.objective, d) < 0

OptimalSet(lp) ==
    {x \in FeasibleSet(lp) :
        \A y \in FeasibleSet(lp) : Eval(lp.objective, x) <= Eval(lp.objective, y)}

SolveErr(err) == [tag |-> "Err", err |-> err, status |-> "", values |-> << >>]
SolveOk(status, x) == [tag |-> "Ok", err |-> "", status |-> status, values |-> x]

Solve(lp) ==
    IF FeasibleSet(lp) = {} THEN {SolveErr("Infeasible")}
    ELSE IF IsUnbounded(lp) THEN {SolveErr("Unbounded")}
    ELSE {SolveOk("Optimal", x) : x \in OptimalSet(lp)}
         \cup {SolveOk("TimeLimit", x) : x \in FeasibleSet(lp)}

----------------------------------------------------------------------------
(* Message::Compute, projection *)

\* Faulty variant of ProjectUses: the usage of the last recipe is dropped.
ProjectUsesTruncated(n, values) == [i \in 1..(n - 1) |-> values[i]]

ProjectUses(n, values) == [i \in 1..n |-> values[i]]

\* Faulty variant of ProjectStats: the pair is stored as (consumed, produced).
ProjectStatsSwapped(exprs, values) ==
    [item \in DOMAIN exprs |->
        <<Eval(exprs[item].uses, values), Eval(exprs[item].prod, values)>>]

ProjectStats(exprs, values) ==
    [item \in DOMAIN exprs |->
        <<Eval(exprs[item].prod, values), Eval(exprs[item].uses, values)>>]

----------------------------------------------------------------------------
(* App::update, one action per Message *)

ComputeErrorMsg(msg) == [kind |-> "ComputeError", msg |-> msg]

\* The history of the last message: its kind ("Change" for every message that
\* edits recipes or annotations) and, for Compute, the expressions it built,
\* the problem it handed to the solver and what the solver answered.
Note(kind) == [kind |-> kind, exprs |-> None, lp |-> None, outcome |-> None]

\* The two assignments at the head of update, for a message that touches no
\* other field of the file menu or of the popup.
FileFrame ==
    /\ import_error' = None
    /\ save_error' = None
    /\ UNCHANGED <<file_vars, bank>>

\* Faulty variant of Invalidate: the stored error survives the change.
InvalidateKeepingError ==
    /\ unsaved_changes' = TRUE
    /\ error' = error
    /\ recipe_uses' = None
    /\ item_stats' = None

\* The end of update that every editing message falls through to.
Invalidate ==
    /\ unsaved_changes' = TRUE
    /\ error' = None
    /\ recipe_uses' = None
    /\ item_stats' = None

InRange(index) == index \in 1..Len(recipes)

MaxCountOf(ledger) ==
    IF DOMAIN ledger = {} THEN 0
    ELSE CHOOSE c \in {ledger[x].count : x \in DOMAIN ledger} :
            \A y \in DOMAIN ledger : ledger[y].count <= c

MsgAction(index, a) ==
    /\ (InRange(index) /\ ~IsBuilt(recipes[index]) /\ a.op = "AddProduct")
            => Len(recipes[index].products) < MaxEntries
    /\ (InRange(index) /\ ~IsBuilt(recipes[index]) /\ a.op = "AddIngredient")
            => Len(recipes[index].ingredients) < MaxEntries
    /\ recipes' = IF InRange(index)
                  THEN [recipes EXCEPT ![index] = PerformBuilderAction(@, a)]
                  ELSE recipes
    /\ Invalidate
    /\ last' = Note("Change")
    /\ FileFrame
    /\ UNCHANGED <<known_items, pending>>

MsgBuild(index) ==
    /\ recipes' = IF InRange(index)
                  THEN [recipes EXCEPT ![index] = PerformBuild(@)]
                  ELSE recipes
    /\ known_items' = IF InRange(index)
                      THEN add_recipe_items(known_items, recipes'[index])
                      ELSE known_items
    /\ MaxCountOf(known_items') <= MaxCount
    /\ Invalidate
    /\ last' = Note("Change")
    /\ FileFrame
    /\ UNCHANGED pending

MsgEdit(index) ==
    /\ known_items' = IF InRange(index)
                      THEN remove_recipe_items(known_items, recipes[index])
                      ELSE known_items
    /\ recipes' = IF InRange(index)
                  THEN [recipes EXCEPT ![index] = PerformEdit(@)]
                  ELSE recipes
    /\ Invalidate
    /\ last' = Note("Change")
    /\ FileFrame
    /\ UNCHANGED pending

\* Faulty variant of MsgDelete: the ledger is updated for the recipe at index
\* but the last recipe of the collection is the one removed.
MsgDeleteLast(index) ==
    /\ known_items' = IF InRange(index)
                      THEN remove_recipe_items(known_items, recipes[index])
                      ELSE known_items
    /\ recipes' = IF index <= Len(recipes) THEN RemoveAt(recipes, Len(recipes)) ELSE recipes
    /\ Invalidate
    /\ last' = Note("Change")
    /\ FileFrame
    /\ UNCHANGED pending

MsgDelete(index) ==
    /\ known_items' = IF InRange(index)
                      THEN remove_recipe_items(known_items, recipes[index])
                      ELSE known_items
    /\ recipes' = IF index <= Len(recipes) THEN RemoveAt(recipes, index) ELSE recipes
    /\ Invalidate
    /\ last' = Note("Change")
    /\ FileFrame
    /\ UNCHANGED pending

MsgAddRecipe ==
    /\ recipes' = Append(recipes, BuilderStateNew)
    /\ Invalidate
    /\ last' = Note("Change")
    /\ FileFrame
    /\ UNCHANGED <<known_items, pending>>

\* Faulty variant of MsgToggleTarget: toggling on resets the amount.
MsgToggleTargetResetting(item, toggle) ==
    /\ known_items' =
         IF item \in DOMAIN known_items
         THEN [known_items EXCEPT ![item].target =
                  IF toggle THEN Some(Content(DefaultAmount)) ELSE None]
         ELSE known_items
    /\ Invalidate
    /\ last' = Note("Change")
    /\ FileFrame
    /\ UNCHANGED <<recipes, pending>>

MsgToggleTarget(item, toggle) ==
    /\ known_items' =
         IF item \in DOMAIN known_items
         THEN [known_items EXCEPT ![item].target =
                  IF toggle
                  THEN (IF IsSome(@) THEN @ ELSE Some(Content(DefaultAmount)))
                  ELSE None]
         ELSE known_items
    /\ Invalidate
    /\ last' = Note("Change")
    /\ FileFrame
    /\ UNCHANGED <<recipes, pending>>

MsgEditTargetAmount(item, val) ==
    /\ known_items' =
         IF item \in DOMAIN known_items /\ IsSome(known_items[item].target)
         THEN [known_items EXCEPT ![item].target = Some(ContentUpdate(Unwrap(@), val))]
         ELSE known_items
    /\ Invalidate
    /\ last' = Note("Change")
    /\ FileFrame
    /\ UNCHANGED <<recipes, pending>>

MsgToggleRaw(item, toggle) ==
    /\ known_items' =
         IF item \in DOMAIN known_items
         THEN [known_items EXCEPT ![item].raw =
                  IF toggle
                  THEN (IF IsSome(@) THEN @ ELSE Some(Content(DefaultAmount)))
                  ELSE None]
         ELSE known_items
    /\ Invalidate
    /\ last' = Note("Change")
    /\ FileFrame
    /\ UNCHANGED <<recipes, pending>>

MsgEditRawCost(item, val) ==
    /\ known_items' =
         IF item \in DOMAIN known_items /\ IsSome(known_items[item].raw)
         THEN [known_items EXCEPT ![item].raw = Some(ContentUpdate(Unwrap(@), val))]
         ELSE known_items
    /\ Invalidate
    /\ last' = Note("Change")
    /\ FileFrame
    /\ UNCHANGED <<recipes, pending>>

\* Compute when the expression build returns early with an error message.
ComputeFails(msg) ==
    /\ pending' = Append(pending, ComputeErrorMsg(msg))
    /\ last' = Note("Compute")
    /\ UNCHANGED <<recipe_uses, item_stats, unsaved_changes>>

\* Faulty variant of ComputeSolves: a solver error is stored as the solution
\* that runs no recipe.
ComputeSolvesZeroOnError(exprs, lp) ==
    \E out \in Solve(lp) :
        /\ last' = [kind |-> "Compute", exprs |-> Some(exprs), lp |-> Some(lp),
                    outcome |-> Some(out)]
        /\ IF out.tag = "Ok"
           THEN /\ recipe_uses' = Some(ProjectUses(lp.n, out.values))
                /\ item_stats' = Some(ProjectStats(exprs, out.values))
                /\ IF out.status = "Optimal"
                   THEN /\ unsaved_changes' = TRUE
                        /\ UNCHANGED pending
                   ELSE /\ pending' = Append(pending,
                                ComputeErrorMsg(<<"Solution is not optimal.", out.status>>))
                        /\ UNCHANGED unsaved_changes
           ELSE /\ pending' = Append(pending,
                        ComputeErrorMsg(<<"Could not solve:", out.err>>))
                /\ recipe_uses' = Some(ExprDefault(lp.n))
                /\ item_stats' = Some(ProjectStats(exprs, ExprDefault(lp.n)))
                /\ UNCHANGED unsaved_changes

\* Faulty variant of ComputeSolves: a solution that is already stored is kept
\* instead of being recomputed.
ComputeSolvesCached(exprs, lp) ==
    \E out \in Solve(lp) :
        /\ last' = [kind |-> "Compute", exprs |-> Some(exprs), lp |-> Some(lp),
                    outcome |-> Some(out)]
        /\ IF out.tag = "Ok"
           THEN /\ recipe_uses' = IF IsSome(recipe_uses) THEN recipe_uses
                                  ELSE Some(ProjectUses(lp.n, out.values))
                /\ item_stats' = IF IsSome(item_stats) THEN item_stats
                                 ELSE Some(ProjectStats(exprs, out.values))
                /\ IF out.status = "Optimal"
                   THEN /\ unsaved_changes' = TRUE
                        /\ UNCHANGED pending
                   ELSE /\ pending' = Append(pending,
                                ComputeErrorMsg(<<"Solution is not optimal.", out.status>>))
                        /\ UNCHANGED unsaved_changes
           ELSE /\ pending' = Append(pending,
                        ComputeErrorMsg(<<"Could not solve:", out.err>>))
                /\ UNCHANGED <<recipe_uses, item_stats, unsaved_changes>>

\* Compute once the problem lp is built: the solve and the projection.
ComputeSolves(exprs, lp) ==
    \E out \in Solve(lp) :
        /\ last' = [kind |-> "Compute", exprs |-> Some(exprs), lp |-> Some(lp),
                    outcome |-> Some(out)]
        /\ IF out.tag = "Ok"
           THEN /\ recipe_uses' = Some(ProjectUses(lp.n, out.values))
                /\ item_stats' = Some(ProjectStats(exprs, out.values))
                /\ IF out.status = "Optimal"
                   THEN /\ unsaved_changes' = TRUE
                        /\ UNCHANGED pending
                   ELSE /\ pending' = Append(pending,
                                ComputeErrorMsg(<<"Solution is not optimal.", out.status>>))
                        /\ UNCHANGED unsaved_changes
           ELSE /\ pending' = Append(pending,
                        ComputeErrorMsg(<<"Could not solve:", out.err>>))
                /\ UNCHANGED <<recipe_uses, item_stats, unsaved_changes>>

MsgCompute ==
    /\ Len(pending) < MaxPending
    /\ LET built == BuildExpressions(recipes, known_items)
       IN  CASE built.tag = "NotBuilt" ->
                    ComputeFails(<<"One of the recipies is not build.">>)
             [] built.tag = "Missing" ->
                    ComputeFails(<<"Internal error: no expression found for item", built.item>>)
             [] built.tag = "Ok" ->
                    ComputeSolves(built.exprs, Compile(Len(recipes), known_items, built.exprs))
    /\ FileFrame
    /\ UNCHANGED <<recipes, known_items, error>>

\* The runtime delivers the message of a finished Task::done.
MsgComputeError ==
    /\ pending # << >>
    /\ Head(pending).kind = "ComputeError"
    /\ error' = Some(Head(pending).msg)
    /\ pending' = Tail(pending)
    /\ last' = Note("ComputeError")
    /\ FileFrame
    /\ UNCHANGED <<recipes, known_items, recipe_uses, item_stats, unsaved_changes>>

----------------------------------------------------------------------------
(* RecipeBank: recipes and, for each item, the recipes that produce it *)

\* Recipe::new of recipe_lookup: the two lists, as they are given.
LookupRecipe(ingredients, products) ==
    [ingredients |-> ingredients, products |-> products]

\* Default for RecipeBank
RecipeBankDefault == [table |-> << >>, recipes |-> << >>]

\* One step of the iteration over the products: id is pushed on the entry of
\* item, which is inserted if there was none.
TableBind(table, item, id) ==
    IF item \in DOMAIN table
    THEN [table EXCEPT ![item] = Append(@, id)]
    ELSE (item :> <<id>>) @@ table

\* The bindings of the products from the k-th on.
RECURSIVE TableBindFrom(_, _, _, _)
TableBindFrom(table, products, id, k) ==
    IF k > Len(products) THEN table
    ELSE TableBindFrom(TableBind(table, products[k].item, id), products, id, k + 1)

\* RecipeBank::add
RecipeBankAdd(b, recipe) ==
    LET id == Len(b.recipes)
    IN  [recipes |-> Append(b.recipes, recipe),
         table |-> TableBindFrom(b.table, recipe.products, id, 1)]

----------------------------------------------------------------------------
(* The file menu, the save popup and the window                            *)

Extension == "crtr"

\* A path is a file stem and an extension.
PathOf(stem, ext) == [stem |-> stem, ext |-> ext]
Paths == {PathOf(stem, ext) : stem \in {"a"}, ext \in {Extension, ""}}

\* PathBuf::set_extension(EXTENSION)
SetExtension(p) == [p EXCEPT !.ext = Extension]

\* Messages handed to the runtime: the kind and the argument.
OpenMsg(p) == [kind |-> "Open", msg |-> <<p>>]
SaveMsg(p) == [kind |-> "Save", msg |-> <<p>>]
SaveAsButtonMsg == [kind |-> "SaveAsButton", msg |-> << >>]
SaveDoneMsg == [kind |-> "SaveDone", msg |-> << >>]
CloseMsg == [kind |-> "Close", msg |-> << >>]

\* Content::into_value
IntoValue(c) == c.value

\* Option::map with Content::into_value and with Content::new
OptionIntoValue(o) == IF IsSome(o) THEN Some(IntoValue(Unwrap(o))) ELSE None
OptionContent(o) == IF IsSome(o) THEN Some(Content(Unwrap(o))) ELSE None

\* EditableContent::save: a Built recipe is saved as it is, a Builder as the
\* values of its fields ("Parsing errors are lost in the process").
EditableContentSave(r) ==
    IF IsBuilt(r) THEN r
    ELSE [kind |-> "Builder",
          ingredients |-> [k \in 1..Len(r.ingredients) |->
                              [item |-> r.ingredients[k].item,
                               qty |-> IntoValue(r.ingredients[k].qty)]],
          products |-> [k \in 1..Len(r.products) |->
                           [item |-> r.products[k].item,
                            qty |-> IntoValue(r.products[k].qty),
                            proba |-> IntoValue(r.products[k].proba)]]]

\* Faulty variant of EditableContentFromSave: a saved Builder comes back with
\* the default quantity and probability in every line.
EditableContentFromSaveDefaulting(v) ==
    IF IsBuilt(v) THEN v
    ELSE [kind |-> "Builder",
          ingredients |-> [k \in 1..Len(v.ingredients) |->
                              [item |-> v.ingredients[k].item,
                               qty |-> Content(DefaultQuantity)]],
          products |-> [k \in 1..Len(v.products) |->
                           [item |-> v.products[k].item,
                            qty |-> Content(DefaultQuantity),
                            proba |-> Content(DefaultProbability)]]]

\* From<EditableContentSave> for EditableContent
EditableContentFromSave(v) ==
    IF IsBuilt(v) THEN v
    ELSE [kind |-> "Builder",
          ingredients |-> [k \in 1..Len(v.ingredients) |->
                              [item |-> v.ingredients[k].item,
                               qty |-> Content(v.ingredients[k].qty)]],
          products |-> [k \in 1..Len(v.products) |->
                           [item |-> v.products[k].item,
                            qty |-> Content(v.products[k].qty),
                            proba |-> Content(v.products[k].proba)]]]

\* The bytes of a file: parses says whether they decode as an AppSave.
AppSave(recs, ledger, err, uses, stats, sc) ==
    [parses |-> TRUE, recipes |-> recs, known_items |-> ledger, error |-> err,
     recipe_uses |-> uses, item_stats |-> stats, scale |-> sc]

Garbage ==
    [parses |-> FALSE, recipes |-> << >>, known_items |-> << >>, error |-> None,
     recipe_uses |-> None, item_stats |-> None, scale |-> 0]

\* Faulty variant of CloneIntoSaveOf: the stored solution is left out of the
\* snapshot.
CloneIntoSaveWithoutSolution(recs, ledger, err, uses, stats, sc) ==
    AppSave([k \in 1..Len(recs) |-> EditableContentSave(recs[k])],
            [item \in DOMAIN ledger |->
                [count |-> ledger[item].count,
                 target |-> OptionIntoValue(ledger[item].target),
                 raw |-> OptionIntoValue(ledger[item].raw)]],
            err, None, None, sc)

\* App::clone_into_save on the given fields
CloneIntoSaveOf(recs, ledger, err, uses, stats, sc) ==
    AppSave([k \in 1..Len(recs) |-> EditableContentSave(recs[k])],
            [item \in DOMAIN ledger |->
                [count |-> ledger[item].count,
                 target |-> OptionIntoValue(ledger[item].target),
                 raw |-> OptionIntoValue(ledger[item].raw)]],
            err, uses, stats, sc)

CloneIntoSave ==
    CloneIntoSaveOf(recipes, known_items, error, recipe_uses, item_stats, scale)

\* The fields of an App value.
AppDefault ==
    [recipes |-> << >>, known_items |-> << >>, error |-> None, recipe_uses |-> None,
     item_stats |-> None, scale |-> DefaultAmount, unsaved_changes |-> FALSE,
     path |-> None, import_error |-> None, save_error |-> None, save_popup |-> None]

\* From<(AppSave, P)> for App
AppFromSave(value, p) ==
    [recipes |-> [k \in 1..Len(value.recipes) |-> EditableContentFromSave(value.recipes[k])],
     known_items |-> [item \in DOMAIN value.known_items |->
                         [count |-> value.known_items[item].count,
                          target |-> OptionContent(value.known_items[item].target),
                          raw |-> OptionContent(value.known_items[item].raw)]],
     error |-> value.error,
     recipe_uses |-> value.recipe_uses,
     item_stats |-> value.item_stats,
     scale |-> value.scale,
     unsaved_changes |-> FALSE,
     path |-> Some(p),
     import_error |-> None,
     save_error |-> None,
     save_popup |-> None]

\* App::from_file: the file is missing, or does not decode, or gives an App.
FromFile(files, p) ==
    IF ~IsSome(files[p]) THEN [tag |-> "Err", err |-> "FileError", app |-> AppDefault]
    ELSE IF ~Unwrap(files[p]).parses
         THEN [tag |-> "Err", err |-> "ParseError", app |-> AppDefault]
         ELSE [tag |-> "Ok", err |-> "", app |-> AppFromSave(Unwrap(files[p]), p)]

\* App::new with the first command line argument
AppNew(files, arg) ==
    IF IsSome(arg)
    THEN LET res == FromFile(files, Unwrap(arg))
         IN  IF res.tag = "Ok" THEN res.app
             ELSE [AppDefault EXCEPT !.import_error = Some(res.err)]
    ELSE AppDefault

\* The variables hold the fields of app.
IsApp(app) ==
    /\ recipes = app.recipes
    /\ known_items = app.known_items
    /\ error = app.error
    /\ recipe_uses = app.recipe_uses
    /\ item_stats = app.item_stats
    /\ scale = app.scale
    /\ unsaved_changes = app.unsaved_changes
    /\ path = app.path
    /\ import_error = app.import_error
    /\ save_error = app.save_error
    /\ save_popup = app.save_popup

\* *self = app
BecomeApp(app) ==
    /\ recipes' = app.recipes
    /\ known_items' = app.known_items
    /\ error' = app.error
    /\ recipe_uses' = app.recipe_uses
    /\ item_stats' = app.item_stats
    /\ scale' = app.scale
    /\ unsaved_changes' = app.unsaved_changes
    /\ path' = app.path
    /\ import_error' = app.import_error
    /\ save_error' = app.save_error
    /\ save_popup' = app.save_popup

NoFiles == [p \in Paths |-> None]

\* The application was started without a file and the window is open.
StartedWithoutFile ==
    /\ scale = DefaultAmount
    /\ path = None
    /\ import_error = None
    /\ save_error = None
    /\ save_popup = None
    /\ disk = NoFiles
    /\ closed = FALSE
    /\ dont_save = FALSE
    /\ bank = RecipeBankDefault

\* The application was started on the file that holds its recipes and ledger.
StartedOnFile ==
    /\ scale = DefaultAmount
    /\ path = Some(PathOf("a", Extension))
    /\ import_error = None
    /\ save_error = None
    /\ save_popup = None
    /\ disk = [NoFiles EXCEPT ![PathOf("a", Extension)] = Some(CloneIntoSave)]
    /\ closed = FALSE
    /\ dont_save = FALSE
    /\ bank = RecipeBankDefault

\* The two assignments at the head of update.
ClearFileErrors ==
    /\ import_error' = None
    /\ save_error' = None

\* App::save_popup(msg); rest is the queue of the runtime.
SavePopup(rest, m) ==
    IF unsaved_changes
    THEN /\ save_popup' = Some(m)
         /\ pending' = rest
    ELSE /\ pending' = Append(rest, m)
         /\ UNCHANGED save_popup

\* picked is the answer of the file dialog: None when it was cancelled.
MsgOpenButton(picked) ==
    /\ ClearFileErrors
    /\ IF IsSome(picked)
       THEN SavePopup(pending, OpenMsg(Unwrap(picked)))
       ELSE UNCHANGED <<pending, save_popup>>
    /\ last' = Note("OpenButton")
    /\ UNCHANGED <<recipes, known_items, error, recipe_uses, item_stats, unsaved_changes,
                   scale, path, disk, closed, dont_save, bank>>

MsgSaveButton ==
    /\ ClearFileErrors
    /\ pending' = Append(pending, IF IsSome(path) THEN SaveMsg(Unwrap(path))
                                  ELSE SaveAsButtonMsg)
    /\ last' = Note("SaveButton")
    /\ UNCHANGED <<recipes, known_items, error, recipe_uses, item_stats, unsaved_changes,
                   file_vars, bank>>

\* SaveAsButton, pressed or sent by SaveButton; rest is the queue without it.
MsgSaveAsButton(rest, picked) ==
    /\ ClearFileErrors
    /\ pending' = IF IsSome(picked) THEN Append(rest, SaveMsg(Unwrap(picked))) ELSE rest
    /\ last' = Note("SaveAsButton")
    /\ UNCHANGED <<recipes, known_items, error, recipe_uses, item_stats, unsaved_changes,
                   file_vars, bank>>

\* Faulty variant of MsgOpen: a file that cannot be loaded leaves the application
\* that App::new gives for it, not the one that was open.
MsgOpenResetting(rest, path_buf) ==
    LET res == FromFile(disk, path_buf)
    IN  /\ IF res.tag = "Ok"
           THEN BecomeApp(res.app)
           ELSE BecomeApp([AppDefault EXCEPT !.import_error = Some(res.err)])
        /\ pending' = rest
        /\ last' = Note("Open")
        /\ UNCHANGED <<disk, closed, dont_save, bank>>

MsgOpen(rest, path_buf) ==
    LET res == FromFile(disk, path_buf)
    IN  /\ IF res.tag = "Ok"
           THEN BecomeApp(res.app)
           ELSE /\ import_error' = Some(res.err)
                /\ save_error' = None
                /\ UNCHANGED <<recipes, known_items, error, recipe_uses, item_stats,
                               unsaved_changes, scale, path, save_popup>>
        /\ pending' = rest
        /\ last' = Note("Open")
        /\ UNCHANGED <<disk, closed, dont_save, bank>>

\* Faulty variant of MsgSave: SaveDone is sent although the file could not be
\* written.
MsgSaveReleasing(rest, path_buf, outcome) ==
    LET file == SetExtension(path_buf)
    IN  /\ import_error' = None
        /\ IF outcome = "Ok"
           THEN /\ disk' = [disk EXCEPT ![file] = Some(CloneIntoSave)]
                /\ path' = Some(file)
                /\ unsaved_changes' = FALSE
                /\ save_error' = None
           ELSE /\ disk' = IF outcome = "WriteError"
                           THEN [disk EXCEPT ![file] = Some(Garbage)]
                           ELSE disk
                /\ save_error' = Some(outcome)
                /\ UNCHANGED <<path, unsaved_changes>>
        /\ pending' = Append(rest, SaveDoneMsg)
        /\ last' = Note("Save")
        /\ UNCHANGED <<recipes, known_items, error, recipe_uses, item_stats,
                       scale, save_popup, closed, dont_save, bank>>

\* Save(path): set_extension, then save_and_set_err.  outcome is what the
\* file system answers: the file is written, or it cannot be created, or it is
\* created and the write fails.
MsgSave(rest, path_buf, outcome) ==
    LET file == SetExtension(path_buf)
    IN  /\ import_error' = None
        /\ IF outcome = "Ok"
           THEN /\ disk' = [disk EXCEPT ![file] = Some(CloneIntoSave)]
                /\ path' = Some(file)
                /\ unsaved_changes' = FALSE
                /\ save_error' = None
                /\ pending' = Append(rest, SaveDoneMsg)
           ELSE /\ disk' = IF outcome = "WriteError"
                           THEN [disk EXCEPT ![file] = Some(Garbage)]
                           ELSE disk
                /\ save_error' = Some(outcome)
                /\ pending' = rest
                /\ UNCHANGED <<path, unsaved_changes>>
        /\ last' = Note("Save")
        /\ UNCHANGED <<recipes, known_items, error, recipe_uses, item_stats,
                       scale, save_popup, closed, dont_save, bank>>

\* SaveDone, sent after a save or by the "Don't save" button of the popup
\* (button is TRUE).
MsgSaveDone(rest, button) ==
    /\ ClearFileErrors
    /\ save_popup' = None
    /\ pending' = IF IsSome(save_popup) THEN Append(rest, Unwrap(save_popup)) ELSE rest
    /\ dont_save' = (dont_save \/ button)
    /\ last' = Note("SaveDone")
    /\ UNCHANGED <<recipes, known_items, error, recipe_uses, item_stats, unsaved_changes,
                   scale, path, disk, closed, bank>>

MsgPopupCancel ==
    /\ ClearFileErrors
    /\ save_popup' = None
    /\ last' = Note("PopupCancel")
    /\ UNCHANGED <<recipes, known_items, error, recipe_uses, item_stats, unsaved_changes,
                   pending, scale, path, disk, closed, dont_save, bank>>

MsgCloseRequest ==
    /\ ClearFileErrors
    /\ SavePopup(pending, CloseMsg)
    /\ last' = Note("CloseRequest")
    /\ UNCHANGED <<recipes, known_items, error, recipe_uses, item_stats, unsaved_changes,
                   scale, path, disk, closed, dont_save, bank>>

\* Close(id): window::close(id)
MsgClose(rest) ==
    /\ ClearFileErrors
    /\ closed' = TRUE
    /\ pending' = rest
    /\ last' = Note("Close")
    /\ UNCHANGED <<recipes, known_items, error, recipe_uses, item_stats, unsaved_changes,
                   scale, path, save_popup, disk, dont_save, bank>>

MsgEditScale(v) ==
    /\ ClearFileErrors
    /\ scale' = v
    /\ unsaved_changes' = TRUE
    /\ last' = Note("EditScale")
    /\ UNCHANGED <<recipes, known_items, error, recipe_uses, item_stats, pending,
                   path, save_popup, disk, closed, dont_save, bank>>

----------------------------------------------------------------------------
(* Inputs *)

Parsed(S) == {None} \cup {Some(v) : v \in S}

BuilderActions ==
    [op : {"AddProduct"}, index : {0}, item : NewItems, qty : Quantities, proba : Percents]
    \cup [op : {"AddIngredient"}, index : {0}, item : NewItems, qty : Quantities, proba : {0}]
    \cup [op : {"EditProdItem", "EditIngrItem"}, index : EntryIndices, item : NewItems,
          qty : {0}, proba : {0}]
    \cup [op : {"EditProdQty", "EditIngrQty"}, index : EntryIndices, item : {""},
          qty : Parsed(Quantities), proba : {0}]
    \cup [op : {"EditProdProba"}, index : EntryIndices, item : {""},
          qty : {0}, proba : Parsed(Percents)]
    \cup [op : {"DelProd", "DelIngr"}, index : EntryIndices, item : {""},
          qty : {0}, proba : {0}]

----------------------------------------------------------------------------
(* The application started empty (App::default) *)

Init ==
    /\ recipes = << >>
    /\ known_items = << >>
    /\ error = None
    /\ recipe_uses = None
    /\ item_stats = None
    /\ unsaved_changes = FALSE
    /\ pending = << >>
    /\ last = Note("Init")
    /\ StartedWithoutFile

Next ==
    \/ \E index \in Indices, a \in BuilderActions : MsgAction(index, a)
    \/ \E index \in Indices : MsgBuild(index)
    \/ \E index \in Indices : MsgEdit(index)
    \/ \E index \in Indices : MsgDelete(index)
    \/ Len(recipes) < MaxAdded /\ MsgAddRecipe
    \/ \E item \in Items, toggle \in BOOLEAN : MsgToggleTarget(item, toggle)
    \/ \E item \in Items, val \in Parsed(Amounts) : MsgEditTargetAmount(item, val)
    \/ \E item \in Items, toggle \in BOOLEAN : MsgToggleRaw(item, toggle)
    \/ \E item \in Items, val \in Parsed(Amounts) : MsgEditRawCost(item, val)
    \/ MsgCompute
    \/ MsgComputeError

Spec == Init /\ [][Next]_vars

----------------------------------------------------------------------------
(* The application started on a saved file (App::new with a path): the     *)
(* recipes of the file are Built and the ledger is the one that building   *)
(* them one after the other left.                                          *)

Ingr(item, qty) == [item |-> item, qty |-> qty]
Prod(item, qty, percent) == [item |-> item, qty |-> qty, prob |-> (percent * Den) \div 100]

Cookbook ==
    { \* 2 ore -> 1 ingot
      << RecipeNew(<<Ingr("ore", 2)>>, <<Prod("ingot", 1, 100)>>) >>,
      \* nothing -> 2 ingot at 50%
      << RecipeNew(<< >>, <<Prod("ingot", 2, 50)>>) >>,
      \* items in several entries of one list, one of them on both sides
      << RecipeNew(<<Ingr("ore", 1), Ingr("ore", 2), Ingr("ingot", 1)>>,
                   <<Prod("ingot", 1, 100), Prod("ingot", 2, 50)>>) >>,
      \* an item that is both ingredient and product
      << RecipeNew(<<Ingr("ingot", 1)>>, <<Prod("ingot", 2, 100), Prod("ore", 1, 50)>>) >>,
      \* a chain of two recipes
      << RecipeNew(<< >>, <<Prod("ore", 1, 100)>>),
         RecipeNew(<<Ingr("ore", 2)>>, <<Prod("ingot", 1, 100)>>) >> }

RECURSIVE LedgerOfFrom(_, _, _)
LedgerOfFrom(ledger, recs, k) ==
    IF k > Len(recs) THEN ledger
    ELSE LedgerOfFrom(add_recipe_items(ledger, recs[k]), recs, k + 1)

InitLoaded ==
    /\ recipes \in Cookbook
    /\ known_items = LedgerOfFrom(<< >>, recipes, 1)
    /\ error = None
    /\ recipe_uses = None
    /\ item_stats = None
    /\ unsaved_changes = FALSE
    /\ pending = << >>
    /\ last = Note("Init")
    /\ StartedOnFile

NextLoaded ==
    \/ \E index \in Indices : MsgBuild(index)
    \/ \E index \in Indices : MsgEdit(index)
    \/ \E index \in Indices : MsgDelete(index)
    \/ \E item \in Items, toggle \in BOOLEAN : MsgToggleTarget(item, toggle)
    \/ \E item \in Items, val \in Amounts : MsgEditTargetAmount(item, Some(val))
    \/ \E item \in Items, toggle \in BOOLEAN : MsgToggleRaw(item, toggle)
    \/ \E item \in Items, val \in Amounts : MsgEditRawCost(item, Some(val))
    \/ MsgCompute
    \/ MsgComputeError

SpecLoaded == InitLoaded /\ [][NextLoaded]_vars

----------------------------------------------------------------------------
(* The application started on a saved file of one recipe, with the amounts *)
(* of the worked scenarios typed into the target and raw cost fields.      *)

ScenarioCookbook ==
    { \* nothing -> 10 wood
      << RecipeNew(<< >>, <<Prod("wood", 10, 100)>>) >>,
      \* 2 ore -> 1 ingot
      << RecipeNew(<<Ingr("ore", 2)>>, <<Prod("ingot", 1, 100)>>) >> }

ScenarioAmounts == {3, 10, 50}

InitScenario ==
    /\ recipes \in ScenarioCookbook
    /\ known_items = LedgerOfFrom(<< >>, recipes, 1)
    /\ error = None
    /\ recipe_uses = None
    /\ item_stats = None
    /\ unsaved_changes = FALSE
    /\ pending = << >>
    /\ last = Note("Init")
    /\ StartedOnFile

NextScenario ==
    \/ \E item \in Items, toggle \in BOOLEAN : MsgToggleTarget(item, toggle)
    \/ \E item \in Items, val \in ScenarioAmounts : MsgEditTargetAmount(item, Some(val))
    \/ \E item \in Items, toggle \in BOOLEAN : MsgToggleRaw(item, toggle)
    \/ \E item \in Items, val \in ScenarioAmounts : MsgEditRawCost(item, Some(val))
    \/ MsgCompute
    \/ MsgComputeError

SpecScenario == InitScenario /\ [][NextScenario]_vars

----------------------------------------------------------------------------
(* The application started empty, restricted to the messages that change   *)
(* the recipe collection and the ledger: recipes of at most MaxEntries     *)
(* ingredients and products over two items, built, reopened and deleted,   *)
(* and annotations toggled.                                                *)

LedgerItems == {"ingot", "ore"}

LedgerActions ==
    [op : {"AddProduct"}, index : {0}, item : LedgerItems,
     qty : {DefaultQuantity}, proba : {DefaultProbability}]
    \cup [op : {"AddIngredient"}, index : {0}, item : LedgerItems,
          qty : {DefaultQuantity}, proba : {0}]
    \cup [op : {"EditProdItem", "EditIngrItem"}, index : EntryIndices, item : LedgerItems,
          qty : {0}, proba : {0}]
    \cup [op : {"DelProd", "DelIngr"}, index : EntryIndices, item : {""},
          qty : {0}, proba : {0}]

NextLedger ==
    \/ \E index \in Indices, a \in LedgerActions : MsgAction(index, a)
    \/ \E index \in Indices : MsgBuild(index)
    \/ \E index \in Indices : MsgEdit(index)
    \/ \E index \in Indices : MsgDelete(index)
    \/ Len(recipes) < MaxRecipes /\ MsgAddRecipe
    \/ \E item \in LedgerItems, toggle \in BOOLEAN : MsgToggleTarget(item, toggle)
    \/ \E item \in LedgerItems, toggle \in BOOLEAN : MsgToggleRaw(item, toggle)

SpecLedger == Init /\ [][NextLedger]_vars

----------------------------------------------------------------------------
(* One editable recipe, as AddRecipe creates it, driven through            *)
(* EditableContent::perform with the numbers typed into its quantity and   *)
(* probability fields.                                                     *)

TypedQuantities == {0, 1, 2, MaxU8, MaxU8 + 1}
TypedPercents == {0, 1, 50, MaxPercent, MaxPercent + 1, MaxU8 + 1}

\* The values of the accepted texts.
OkQuantities == {QuantityFromStr(n).value : n \in {m \in TypedQuantities : QuantityFromStr(m).tag = "Ok"}}
OkPercents == {ProbabilityFromStr(n).value : n \in {m \in TypedPercents : ProbabilityFromStr(m).tag = "Ok"}}

RecipeActions ==
    [op : {"AddProduct"}, index : {0}, item : NewItems, qty : OkQuantities, proba : OkPercents]
    \cup [op : {"AddIngredient"}, index : {0}, item : NewItems, qty : OkQuantities, proba : {0}]
    \cup [op : {"EditProdItem", "EditIngrItem"}, index : EntryIndices, item : NewItems,
          qty : {0}, proba : {0}]
    \cup [op : {"EditProdQty", "EditIngrQty"}, index : EntryIndices, item : {""},
          qty : {ParsedOf(QuantityFromStr(n)) : n \in TypedQuantities}, proba : {0}]
    \cup [op : {"EditProdProba"}, index : EntryIndices, item : {""},
          qty : {0}, proba : {ParsedOf(ProbabilityFromStr(n)) : n \in TypedPercents}]
    \cup [op : {"DelProd", "DelIngr"}, index : EntryIndices, item : {""},
          qty : {0}, proba : {0}]

InitRecipe ==
    /\ recipes = <<BuilderStateNew>>
    /\ known_items = << >>
    /\ error = None
    /\ recipe_uses = None
    /\ item_stats = None
    /\ unsaved_changes = FALSE
    /\ pending = << >>
    /\ last = Note("Init")
    /\ StartedWithoutFile

\* recipe.perform(action) on the recipe.
RecipePerform(action) ==
    /\ (~IsBuilt(recipes[1]) /\ action.kind = "BuilderAction" /\ action.a.op = "AddProduct")
            => Len(recipes[1].products) < MaxEntries
    /\ (~IsBuilt(recipes[1]) /\ action.kind = "BuilderAction" /\ action.a.op = "AddIngredient")
            => Len(recipes[1].ingredients) < MaxEntries
    /\ recipes' = <<EditablePerform(recipes[1], action)>>
    /\ last' = Note(action.kind)
    /\ UNCHANGED <<known_items, error, recipe_uses, item_stats, unsaved_changes, pending>>
    /\ UNCHANGED <<import_error, save_error, file_vars, bank>>

NextRecipe ==
    \/ RecipePerform([kind |-> "Build", a |-> None])
    \/ RecipePerform([kind |-> "Edit", a |-> None])
    \/ \E a \in RecipeActions : RecipePerform([kind |-> "BuilderAction", a |-> a])

SpecRecipe == InitRecipe /\ [][NextRecipe]_vars

----------------------------------------------------------------------------
(* One recipe under construction driven through BuilderState::perform,     *)
(* with up to MaxIngrLines ingredient lines and MaxProdLines product lines *)
(* and indices that reach past the end of both lists.                      *)

LineIndices == 1..(MaxIngrLines + 1)

LineActions ==
    [op : {"AddProduct"}, index : {0}, item : LedgerItems,
     qty : {DefaultQuantity}, proba : {DefaultProbability}]
    \cup [op : {"AddIngredient"}, index : {0}, item : LedgerItems,
          qty : {DefaultQuantity}, proba : {0}]
    \cup [op : {"EditProdItem", "EditIngrItem"}, index : LineIndices, item : LedgerItems,
          qty : {0}, proba : {0}]
    \cup [op : {"EditProdQty", "EditIngrQty"}, index : LineIndices, item : {""},
          qty : {Some(2)}, proba : {0}]
    \cup [op : {"EditProdProba"}, index : LineIndices, item : {""},
          qty : {0}, proba : Parsed({50})]
    \cup [op : {"DelProd", "DelIngr"}, index : LineIndices, item : {""},
          qty : {0}, proba : {0}]

\* builder_state.perform(a) on the recipe under construction.
BuilderStep(a) ==
    /\ a.op = "AddProduct" => Len(recipes[1].products) < MaxProdLines
    /\ a.op = "AddIngredient" => Len(recipes[1].ingredients) < MaxIngrLines
    /\ recipes' = <<BuilderPerform(recipes[1], a)>>
    /\ last' = Note("BuilderAction")
    /\ UNCHANGED <<known_items, error, recipe_uses, item_stats, unsaved_changes, pending>>
    /\ UNCHANGED <<import_error, save_error, file_vars, bank>>

NextBuilder == \E a \in LineActions : BuilderStep(a)

SpecBuilder == InitRecipe /\ [][NextBuilder]_vars

----------------------------------------------------------------------------
(* Recipe::new applied to entries of any u8 quantity and any probability   *)

RawQuantities == {0, 1, MaxU8}
RawPercents == {0, 50, MaxPercent, MaxPercent + 50}

RawIngredients ==
    UNION {[1..n -> {Ingr(item, qty) : item \in Items, qty \in RawQuantities}] :
           n \in 0..MaxRawLines}
RawProducts ==
    UNION {[1..n -> {Prod(item, qty, percent) :
                        item \in Items, qty \in RawQuantities, percent \in RawPercents}] :
           n \in 0..MaxRawLines}

InitConstruct ==
    /\ recipes = << >>
    /\ known_items = << >>
    /\ error = None
    /\ recipe_uses = None
    /\ item_stats = None
    /\ unsaved_changes = FALSE
    /\ pending = << >>
    /\ last = Note("Init")
    /\ StartedWithoutFile

Construct(ingredients, products) ==
    /\ recipes' = <<RecipeNew(ingredients, products)>>
    /\ last' = Note("Construct")
    /\ UNCHANGED <<known_items, error, recipe_uses, item_stats, unsaved_changes, pending>>
    /\ UNCHANGED <<import_error, save_error, file_vars, bank>>

\* Each run constructs one recipe.
NextConstruct ==
    /\ recipes = << >>
    /\ \E ingredients \in RawIngredients, products \in RawProducts :
          Construct(ingredients, products)

SpecConstruct == InitConstruct /\ [][NextConstruct]_vars

----------------------------------------------------------------------------
(* The application started on the first command line argument, with the   *)
(* file menu, the save popup and the window.  One recipe with a target     *)
(* that can be set, the scale, Compute, and two paths the file dialogs can *)
(* answer: the saved file and the same name without extension, which does  *)
(* not exist.                                                              *)

FileRecipes == <<RecipeNew(<< >>, <<Prod("wood", 10, 100)>>)>>
FileItem == "wood"
Scales == {DefaultAmount, 2}
PickedPaths == {PathOf("a", Extension), PathOf("a", "")}
Picked == {None} \cup {Some(p) : p \in PickedPaths}
SaveOutcomes == {"Ok", "FileError", "WriteError"}

InitialFiles ==
    [NoFiles EXCEPT
        ![PathOf("a", Extension)] =
            Some(CloneIntoSaveOf(FileRecipes, LedgerOfFrom(<< >>, FileRecipes, 1),
                                 None, None, None, DefaultAmount))]

InitFile ==
    /\ disk = InitialFiles
    /\ \E arg \in Picked : IsApp(AppNew(disk, arg))
    /\ pending = << >>
    /\ last = Note("Init")
    /\ closed = FALSE
    /\ dont_save = FALSE
    /\ bank = RecipeBankDefault

\* The window is open: the application runs.
Running == ~closed

\* The runtime can take one more message.
Room == Running /\ Len(pending) < MaxPending

\* The runtime delivers the message of a finished Task::done.
Delivered(kind) == Running /\ pending # << >> /\ Head(pending).kind = kind

NextFile ==
    \/ Running /\ \E toggle \in BOOLEAN : MsgToggleTarget(FileItem, toggle)
    \/ Running /\ \E v \in Scales : MsgEditScale(v)
    \/ Running /\ MsgCompute
    \/ Running /\ MsgComputeError
    \/ Room /\ save_popup = None /\ \E picked \in Picked : MsgOpenButton(picked)
    \/ Room /\ MsgSaveButton
    \/ Room /\ save_popup = None /\ \E picked \in Picked : MsgSaveAsButton(pending, picked)
    \/ Room /\ MsgCloseRequest
    \/ Room /\ save_popup # None /\ MsgSaveDone(pending, TRUE)
    \/ Running /\ save_popup # None /\ MsgPopupCancel
    \/ Delivered("SaveAsButton") /\ \E picked \in Picked :
                                       MsgSaveAsButton(Tail(pending), picked)
    \/ Delivered("Save") /\ \E outcome \in SaveOutcomes :
                               MsgSave(Tail(pending), Head(pending).msg[1], outcome)
    \/ Delivered("SaveDone") /\ MsgSaveDone(Tail(pending), FALSE)
    \/ Delivered("Open") /\ MsgOpen(Tail(pending), Head(pending).msg[1])
    \/ Delivered("Close") /\ MsgClose(Tail(pending))

SpecFile == InitFile /\ [][NextFile]_vars

----------------------------------------------------------------------------
(* A document drafted in the empty application, saved to a file and opened *)
(* again from that file                                                    *)

\* No file yet and nothing in flight: the user edits the document.
Drafting == path = None /\ pending = << >>

\* The document is on a file and nothing is in flight.
Filed == path # None /\ pending = << >>

\* The lines a recipe is given and the texts typed into the quantity of its
\* first product, one of them not a number.
SaveOpenActions ==
    [op : {"AddProduct"}, index : {0}, item : {"ingot"},
     qty : {DefaultQuantity}, proba : {DefaultProbability}]
    \cup [op : {"AddIngredient"}, index : {0}, item : {"ore"},
          qty : {DefaultQuantity}, proba : {0}]
    \cup [op : {"EditProdQty"}, index : {1}, item : {""},
          qty : Parsed({MaxUse}), proba : {0}]

\* The item whose target and raw cost are edited.
DraftItem == "ingot"

NextSaveOpen ==
    \/ Drafting /\ \E index \in Indices, a \in SaveOpenActions : MsgAction(index, a)
    \/ Drafting /\ \E index \in Indices : MsgBuild(index)
    \/ Drafting /\ Len(recipes) < MaxRecipes /\ MsgAddRecipe
    \/ Drafting /\ \E toggle \in BOOLEAN : MsgToggleTarget(DraftItem, toggle)
    \/ Drafting /\ \E val \in Parsed({MaxUse}) : MsgEditTargetAmount(DraftItem, val)
    \/ Drafting /\ \E toggle \in BOOLEAN : MsgToggleRaw(DraftItem, toggle)
    \/ Drafting /\ \E v \in Scales : MsgEditScale(v)
    \/ Drafting /\ MsgSaveAsButton(pending, Some(PathOf("a", "")))
    \/ Delivered("Save") /\ \E outcome \in SaveOutcomes :
                               MsgSave(Tail(pending), Head(pending).msg[1], outcome)
    \/ Delivered("SaveDone") /\ MsgSaveDone(Tail(pending), FALSE)
    \/ Filed /\ MsgOpenButton(path)
    \/ Delivered("Open") /\ MsgOpen(Tail(pending), Head(pending).msg[1])

SpecSaveOpen == Init /\ [][NextSaveOpen]_vars

----------------------------------------------------------------------------
(* A RecipeBank filled by RecipeBank::add with recipes of up to MaxEntries *)
(* ingredients and MaxRawLines products over two items                     *)

MaxBank == 3

BankIngredients ==
    UNION {[1..n -> {Ingr(item, DefaultQuantity) : item \in LedgerItems}] :
           n \in 0..MaxEntries}
BankProducts ==
    UNION {[1..n -> {Prod(item, DefaultQuantity, MaxPercent) : item \in LedgerItems}] :
           n \in 0..MaxRawLines}
BankRecipes ==
    {LookupRecipe(ingredients, products) :
        ingredients \in BankIngredients, products \in BankProducts}

\* bank.add(recipe)
BankAdd(recipe) ==
    /\ Len(bank.recipes) < MaxBank
    /\ bank' = RecipeBankAdd(bank, recipe)
    /\ last' = Note("Add")
    /\ UNCHANGED <<recipes, known_items, error, recipe_uses, item_stats, unsaved_changes,
                   pending, import_error, save_error, file_vars>>

NextBank == \E recipe \in BankRecipes : BankAdd(recipe)

SpecBank == Init /\ [][NextBank]_vars

----------------------------------------------------------------------------
(* Properties *)

\* The last message was a Compute that reached the solver.
Submitted == last.kind = "Compute" /\ IsSome(last.lp)
\* ... and the solver returned a solution, which Compute stored.
Solved == Submitted /\ Unwrap(last.outcome).tag = "Ok"
\* ... and the solver returned an error.
Failed == Submitted /\ Unwrap(last.outcome).tag = "Err"

HasTarget(item) == IsSome(known_items[item].target)
HasRaw(item) == IsSome(known_items[item].raw)
TargetOf(item) == Unwrap(known_items[item].target).value
RawOf(item) == Unwrap(known_items[item].raw).value

Produced(item) == Unwrap(item_stats)[item][1]
Consumed(item) == Unwrap(item_stats)[item][2]
NetProduction(item) == Produced(item) - Consumed(item)

AllBuilt == \A i \in 1..Len(recipes) : IsBuilt(recipes[i])

\* The constraints of the submitted problem that carry the name of `item`.
ConstraintsOf(item) ==
    {k \in 1..Len(Unwrap(last.lp).constraints) :
        Unwrap(last.lp).constraints[k].name = item}

\* The expression produced - consumed of `item` in the expressions Compute built.
NetExpr(item) ==
    [i \in 1..Len(recipes) |->
        Unwrap(last.exprs)[item].prod[i] - Unwrap(last.exprs)[item].uses[i]]

\* C1: after a Compute that stores a solution, every ledger item with a
\* target t has stored produced - consumed >= t, and the problem handed to
\* the solver holds, under the item's name, exactly the constraint
\* produced - consumed >= t.
C1_TargetMet ==
    Solved =>
        /\ IsSome(item_stats)
        /\ \A item \in DOMAIN known_items :
              HasTarget(item) =>
                /\ NetProduction(item) >= TargetOf(item) * Den
                /\ Cardinality(ConstraintsOf(item)) = 1
                /\ \A k \in ConstraintsOf(item) :
                      /\ Unwrap(last.lp).constraints[k].lhs = NetExpr(item)
                      /\ Unwrap(last.lp).constraints[k].rhs = TargetOf(item) * Den

\* A stored optimal solution in which an item meets a positive target.
C1_Witness ==
    /\ Solved
    /\ Unwrap(last.outcome).status = "Optimal"
    /\ \E item \in DOMAIN known_items :
          /\ HasTarget(item)
          /\ TargetOf(item) > 0
          /\ NetProduction(item) >= TargetOf(item) * Den

\* C2: after a Compute that stores a solution, every ledger item with
\* neither a target nor a raw cost has stored produced - consumed >= 0, and
\* the problem holds, under the item's name, exactly the constraint
\* produced - consumed >= 0.
C2_FreeItemsBalance ==
    Solved =>
        /\ IsSome(item_stats)
        /\ \A item \in DOMAIN known_items :
              (~HasTarget(item) /\ ~HasRaw(item)) =>
                /\ NetProduction(item) >= 0
                /\ Cardinality(ConstraintsOf(item)) = 1
                /\ \A k \in ConstraintsOf(item) :
                      /\ Unwrap(last.lp).constraints[k].lhs = NetExpr(item)
                      /\ Unwrap(last.lp).constraints[k].rhs = 0

\* A stored solution that runs a recipe consuming an item with no annotation.
C2_Witness ==
    /\ Solved
    /\ \E item \in DOMAIN known_items :
          /\ ~HasTarget(item) /\ ~HasRaw(item)
          /\ Consumed(item) > 0
          /\ NetProduction(item) >= 0

\* The cost of one unit of recipe i: the sum, over the first k items of the
\* ledger order that pass the filter, of raw cost * (consumed - produced).
RECURSIVE CostOfRecipe(_, _, _)
CostOfRecipe(i, k, withTarget) ==
    IF k = 0 THEN 0
    ELSE CostOfRecipe(i, k - 1, withTarget)
         + (IF /\ ItemOrder[k] \in DOMAIN known_items
               /\ HasRaw(ItemOrder[k])
               /\ (withTarget \/ ~HasTarget(ItemOrder[k]))
            THEN RawOf(ItemOrder[k])
                 * (Unwrap(last.exprs)[ItemOrder[k]].uses[i]
                    - Unwrap(last.exprs)[ItemOrder[k]].prod[i])
            ELSE 0)

\* C3: the objective Compute hands to the solver is the sum, over the ledger
\* items with a raw cost c and no target, of c * (consumed - produced), and
\* the problem holds no constraint under the name of such an item.
C3_RawCostCharged ==
    Submitted =>
        /\ Unwrap(last.lp).objective =
              [i \in 1..Len(recipes) |-> CostOfRecipe(i, Len(ItemOrder), FALSE)]
        /\ \A item \in DOMAIN known_items :
              (HasRaw(item) /\ ~HasTarget(item)) => ConstraintsOf(item) = {}

\* A stored solution that consumes more than it produces of an item with a
\* positive raw cost and no target.
C3_Witness ==
    /\ Solved
    /\ \E item \in DOMAIN known_items :
          /\ HasRaw(item) /\ ~HasTarget(item)
          /\ RawOf(item) > 0
          /\ NetProduction(item) < 0

\* The target constraint of every item that has both a target and a raw cost.
BothKeepTarget ==
    \A item \in DOMAIN known_items :
        (HasTarget(item) /\ HasRaw(item)) =>
            /\ Cardinality(ConstraintsOf(item)) = 1
            /\ \A k \in ConstraintsOf(item) :
                  /\ Unwrap(last.lp).constraints[k].lhs = NetExpr(item)
                  /\ Unwrap(last.lp).constraints[k].rhs = TargetOf(item) * Den

\* C4 as stated: an item with both a target and a raw cost gets the target
\* constraint and its cost term raw_cost * (consumed - produced) is part of
\* the objective, like the term of every other item with a raw cost.
C4_CostWithTarget ==
    Submitted =>
        /\ BothKeepTarget
        /\ Unwrap(last.lp).objective =
              [i \in 1..Len(recipes) |-> CostOfRecipe(i, Len(ItemOrder), TRUE)]

\* C4: an item with both a target and a raw cost gets the target constraint
\* and no cost term: the objective sums the cost terms of the items that have
\* a raw cost and no target, and of no other item.
C4_TargetOnly ==
    Submitted =>
        /\ BothKeepTarget
        /\ \A i \in 1..Len(recipes) :
              Unwrap(last.lp).objective[i] = CostOfRecipe(i, Len(ItemOrder), FALSE)

\* A submitted problem with an item that has a target and a positive raw cost
\* and that some recipe produces or consumes.
C4_Witness ==
    /\ Submitted
    /\ \E item \in DOMAIN known_items :
          /\ HasTarget(item) /\ HasRaw(item)
          /\ RawOf(item) > 0
          /\ \E i \in 1..Len(recipes) : NetExpr(item)[i] # 0

\* The coefficient recipe r gives item as a product: the sum of q * p over
\* the first k product entries of r that name the item.
RECURSIVE SumProducts(_, _, _)
SumProducts(r, item, k) ==
    IF k = 0 THEN 0
    ELSE SumProducts(r, item, k - 1)
         + (IF r.products[k].item = item
            THEN r.products[k].qty * r.products[k].prob ELSE 0)

\* The coefficient recipe r gives item as an ingredient: the sum of q over
\* the first k ingredient entries of r that name the item (in units of 1/Den).
RECURSIVE SumIngredients(_, _, _)
SumIngredients(r, item, k) ==
    IF k = 0 THEN 0
    ELSE SumIngredients(r, item, k - 1)
         + (IF r.ingredients[k].item = item
            THEN r.ingredients[k].qty * Den ELSE 0)

\* C5: the expressions Compute builds cover exactly the ledger items; for
\* every item and recipe i, the coefficient of v_i in produced is the sum of
\* q * p over all product entries of recipe i naming the item, and the
\* coefficient of v_i in consumed is the sum of q over all ingredient entries
\* of recipe i naming the item (0 when there is none).
C5_ExpressionsAccumulate ==
    (last.kind = "Compute" /\ IsSome(last.exprs)) =>
        /\ DOMAIN Unwrap(last.exprs) = DOMAIN known_items
        /\ \A item \in DOMAIN known_items :
              /\ Len(Unwrap(last.exprs)[item].prod) = Len(recipes)
              /\ Len(Unwrap(last.exprs)[item].uses) = Len(recipes)
              /\ \A i \in 1..Len(recipes) :
                    /\ Unwrap(last.exprs)[item].prod[i] =
                          SumProducts(recipes[i], item, Len(recipes[i].products))
                    /\ Unwrap(last.exprs)[item].uses[i] =
                          SumIngredients(recipes[i], item, Len(recipes[i].ingredients))

\* Expressions built for a recipe that names one item in two product entries
\* and in an ingredient entry.
C5_Witness ==
    /\ last.kind = "Compute" /\ IsSome(last.exprs)
    /\ \E i \in 1..Len(recipes), item \in DOMAIN known_items :
          /\ Cardinality({k \in 1..Len(recipes[i].products) :
                             recipes[i].products[k].item = item}) >= 2
          /\ \E k \in 1..Len(recipes[i].ingredients) :
                recipes[i].ingredients[k].item = item
          /\ Unwrap(last.exprs)[item].prod[i] > 0
          /\ Unwrap(last.exprs)[item].uses[i] > 0

\* C6: after a Compute that stores a solution, recipe_uses holds, for every
\* recipe index, the non-negative value the solver gave the recipe variable,
\* and item_stats maps exactly the ledger items to (produced, consumed), the
\* values at that usage vector of the expressions the constraints were built
\* from.
C6_Projection ==
    Solved =>
        /\ IsSome(recipe_uses) /\ IsSome(item_stats)
        /\ Len(Unwrap(recipe_uses)) = Len(recipes)
        /\ \A i \in 1..Len(recipes) :
              /\ Unwrap(recipe_uses)[i] = Unwrap(last.outcome).values[i]
              /\ Unwrap(recipe_uses)[i] >= 0
        /\ DOMAIN Unwrap(item_stats) = DOMAIN known_items
        /\ \A item \in DOMAIN known_items :
              /\ Produced(item) = Eval(Unwrap(last.exprs)[item].prod, Unwrap(recipe_uses))
              /\ Consumed(item) = Eval(Unwrap(last.exprs)[item].uses, Unwrap(recipe_uses))
        /\ \A k \in 1..Len(Unwrap(last.lp).constraints) :
              Eval(Unwrap(last.lp).constraints[k].lhs, Unwrap(recipe_uses))
                  = NetProduction(Unwrap(last.lp).constraints[k].name)

\* A stored optimal solution that runs a recipe and has an item it both
\* produces and consumes, in different amounts.
C6_Witness ==
    /\ Solved
    /\ Unwrap(last.outcome).status = "Optimal"
    /\ \E i \in 1..Len(recipes) : Unwrap(recipe_uses)[i] > 0
    /\ \E item \in DOMAIN known_items :
          /\ Produced(item) > 0
          /\ Consumed(item) > 0
          /\ Produced(item) # Consumed(item)

NotReadyMsg == ComputeErrorMsg(<<"One of the recipies is not build.">>)

\* C7: a Compute taken while some recipe is unfinished builds no problem and
\* calls no solver, leaves recipes, ledger, recipe_uses and item_stats as they
\* were and hands the runtime the not-ready message; the delivery of a
\* ComputeError stores its message in error.
C7_NotReady ==
    [][/\ (last'.kind = "Compute" /\ ~AllBuilt) =>
            /\ last'.exprs = None /\ last'.lp = None /\ last'.outcome = None
            /\ pending' = Append(pending, NotReadyMsg)
            /\ UNCHANGED <<recipes, known_items, recipe_uses, item_stats>>
       /\ (last'.kind = "ComputeError") =>
            /\ pending # << >>
            /\ error' = Some(Head(pending).msg)
            /\ pending' = Tail(pending)]_vars

\* The not-ready message delivered and stored while a recipe is unfinished.
C7_Witness ==
    /\ last.kind = "ComputeError"
    /\ ~AllBuilt
    /\ error = Some(NotReadyMsg.msg)
    /\ recipe_uses = None /\ item_stats = None

\* C8 as stated: after a Compute whose solution has a status other than
\* Optimal, the error message with the status is on its way and recipe_uses
\* and item_stats do not hold the usage vector and statistics of that
\* solution.
C8_NonOptimalHidden ==
    (Solved /\ Unwrap(last.outcome).status # "Optimal") =>
        /\ pending # << >>
        /\ pending[Len(pending)] =
              ComputeErrorMsg(<<"Solution is not optimal.", Unwrap(last.outcome).status>>)
        /\ recipe_uses # Some(Unwrap(last.outcome).values)
        /\ item_stats # Some(ProjectStats(Unwrap(last.exprs), Unwrap(last.outcome).values))

\* C9: a Compute whose solver call fails hands the runtime exactly one
\* ComputeError with the failure message and changes nothing else of the
\* application; and every Compute that reaches the solver, whatever was
\* attempted before, gets an answer to the problem of the recipes and ledger
\* it is run on.
C9_SolverFailure ==
    [][/\ (last'.kind = "Compute" /\ IsSome(last'.outcome)
              /\ Unwrap(last'.outcome).tag = "Err") =>
            /\ pending' = Append(pending,
                   ComputeErrorMsg(<<"Could not solve:", Unwrap(last'.outcome).err>>))
            /\ UNCHANGED <<recipes, known_items, recipe_uses, item_stats,
                           error, unsaved_changes>>
       /\ (last'.kind = "Compute" /\ IsSome(last'.lp)) =>
            /\ BuildExpressions(recipes, known_items).tag = "Ok"
            /\ Unwrap(last'.lp) =
                  Compile(Len(recipes), known_items,
                          BuildExpressions(recipes, known_items).exprs)
            /\ Unwrap(last'.outcome) \in Solve(Unwrap(last'.lp))]_vars

\* A Compute that the solver refused as unbounded, its message on its way and
\* no result stored.
C9_Witness ==
    /\ Failed
    /\ Unwrap(last.outcome).err = "Unbounded"
    /\ pending # << >>
    /\ pending[Len(pending)] = ComputeErrorMsg(<<"Could not solve:", "Unbounded">>)
    /\ recipe_uses = None /\ item_stats = None

\* No product entry of any recipe names the item.
NoProducer(item) ==
    \A i \in 1..Len(recipes) :
        \A k \in 1..Len(recipes[i].products) : recipes[i].products[k].item # item

InfeasibleMsg == ComputeErrorMsg(<<"Could not solve:", "Infeasible">>)

\* C10 as stated: after a Compute on finished recipes with a ledger item that
\* has a target, of any value, and no recipe producing it, the solver answered
\* infeasible and no usage vector is stored.
C10_AnyTarget ==
    (last.kind = "Compute" /\ AllBuilt
        /\ \E item \in DOMAIN known_items : HasTarget(item) /\ NoProducer(item)) =>
        /\ Failed
        /\ Unwrap(last.outcome).err = "Infeasible"
        /\ recipe_uses = None

\* C10: after a Compute on finished recipes with a ledger item that has a
\* target greater than 0 and no recipe producing it, the solver answered
\* infeasible, the failure message is on its way and neither a usage vector
\* nor statistics are stored.
C10_PositiveTarget ==
    (last.kind = "Compute" /\ AllBuilt
        /\ \E item \in DOMAIN known_items :
              HasTarget(item) /\ TargetOf(item) > 0 /\ NoProducer(item)) =>
        /\ Failed
        /\ Unwrap(last.outcome).err = "Infeasible"
        /\ pending # << >>
        /\ pending[Len(pending)] = InfeasibleMsg
        /\ recipe_uses = None /\ item_stats = None

\* An infeasible Compute on a recipe that consumes an item with a positive
\* target which nothing produces.
C10_Witness ==
    /\ Failed
    /\ Unwrap(last.outcome).err = "Infeasible"
    /\ \E item \in DOMAIN known_items :
          /\ HasTarget(item) /\ TargetOf(item) > 0 /\ NoProducer(item)
          /\ \E i \in 1..Len(recipes) : Unwrap(last.exprs)[item].uses[i] > 0

----------------------------------------------------------------------------
(* Worked scenarios *)

\* Scenario B: the single recipe 2 ore -> 1 ingot, ingot with target 10 and
\* no raw cost, ore with raw cost 3 and no target.
ScenarioB ==
    /\ recipes = << RecipeNew(<<Ingr("ore", 2)>>, <<Prod("ingot", 1, 100)>>) >>
    /\ HasTarget("ingot") /\ TargetOf("ingot") = 10 /\ ~HasRaw("ingot")
    /\ HasRaw("ore") /\ RawOf("ore") = 3 /\ ~HasTarget("ore")

\* Scenario A: the single recipe nothing -> 10 wood, wood with target 50 and
\* no raw cost.
ScenarioA ==
    /\ recipes = << RecipeNew(<< >>, <<Prod("wood", 10, 100)>>) >>
    /\ HasTarget("wood") /\ TargetOf("wood") = 50 /\ ~HasRaw("wood")

\* The cost of the stored solution under the objective Compute submitted.
StoredCost == Eval(Unwrap(last.lp).objective, Unwrap(recipe_uses))

\* C11: in Scenario B every solution Compute stores has usage [10],
\* consumed[ore] = 20 and objective value 60.
C11_ScenarioB ==
    (ScenarioB /\ Solved) =>
        /\ recipe_uses = Some(<<10>>)
        /\ Consumed("ore") = 20 * Den
        /\ StoredCost = 60 * Den

\* C12 as stated: in Scenario A the solution Compute stores is usage [5],
\* produced[wood] = 50 and consumed[wood] = 0.
C12_UniqueOptimum ==
    (ScenarioA /\ Solved) =>
        /\ recipe_uses = Some(<<5>>)
        /\ Produced("wood") = 50 * Den
        /\ Consumed("wood") = 0

\* C12, amended: in Scenario A the compiled objective is zero, usage [5] is
\* one of the optima, and every solution Compute stores has a usage u >= 5
\* with produced[wood] = 10 * u >= 50 and consumed[wood] = 0.
C12_MinimalUsageFeasible ==
    (ScenarioA /\ Solved) =>
        /\ Unwrap(last.lp).objective = <<0>>
        /\ <<5>> \in OptimalSet(Unwrap(last.lp))
        /\ Len(Unwrap(recipe_uses)) = 1
        /\ Unwrap(recipe_uses)[1] >= 5
        /\ Produced("wood") = 10 * Den * Unwrap(recipe_uses)[1]
        /\ Produced("wood") >= 50 * Den
        /\ Consumed("wood") = 0

\* Scenario A solved with status Optimal and a usage above the minimal one.
C12_Witness ==
    /\ ScenarioA
    /\ Solved
    /\ Unwrap(last.outcome).status = "Optimal"
    /\ Unwrap(recipe_uses)[1] > 5

----------------------------------------------------------------------------
(* Invalidation *)

\* C13: after any of the messages Action, Build, Edit, Delete, AddRecipe,
\* ToggleTarget, EditTargetAmount, ToggleRaw or EditRawCost is processed, no
\* usage vector, no item statistics and no error are stored.
C13_ChangeInvalidates ==
    last.kind = "Change" =>
        /\ recipe_uses = None
        /\ item_stats = None
        /\ error = None

\* A change processed after a Compute that stored a non-optimal solution and
\* before the error message of that Compute is delivered: the solution the
\* Compute stored is gone.
C13_Witness ==
    /\ last.kind = "Change"
    /\ pending # << >>
    /\ Head(pending).msg[1] = "Solution is not optimal."
    /\ recipe_uses = None
    /\ item_stats = None
    /\ error = None

----------------------------------------------------------------------------
(* Compute is a function of the current recipes and ledger *)

\* What a Compute leaves stored, as a function of the recipes, the ledger and
\* the answer of the solver alone.
StoredAfterCompute ==
    LET built == BuildExpressions(recipes, known_items)
    IN  IF built.tag # "Ok"
        THEN /\ last.lp = None
             /\ recipe_uses = None
             /\ item_stats = None
        ELSE /\ last.exprs = Some(built.exprs)
             /\ last.lp = Some(Compile(Len(recipes), known_items, built.exprs))
             /\ Unwrap(last.outcome) \in Solve(Unwrap(last.lp))
             /\ IF Unwrap(last.outcome).tag = "Ok"
                THEN /\ recipe_uses =
                            Some(ProjectUses(Len(recipes), Unwrap(last.outcome).values))
                     /\ item_stats =
                            Some(ProjectStats(built.exprs, Unwrap(last.outcome).values))
                ELSE /\ recipe_uses = None
                     /\ item_stats = None

\* C14: what a Compute stores is determined by the current recipes and
\* ledger and by the answer of the solver, never by a solution or error stored
\* before; two Compute messages in a row submit the same problem and, for the
\* same answer of the solver, store the same usage vector and statistics.
C14_Idempotent ==
    /\ [](last.kind = "Compute" => StoredAfterCompute)
    /\ [][(last.kind = "Compute" /\ last'.kind = "Compute") =>
             /\ last'.exprs = last.exprs
             /\ last'.lp = last.lp
             /\ last'.outcome = last.outcome =>
                   /\ recipe_uses' = recipe_uses
                   /\ item_stats' = item_stats]_vars

\* A Compute that stored a solution while the error of an earlier Compute was
\* still stored.
C14_Witness ==
    /\ Solved
    /\ IsSome(error)
    /\ IsSome(recipe_uses)
    /\ IsSome(item_stats)

----------------------------------------------------------------------------
(* The ledger and the Built recipes *)

\* The number of entries of recipe r, ingredient or product, that name item.
OccurrencesIn(r, item) ==
    IF IsBuilt(r)
    THEN Cardinality({k \in 1..Len(RecipeItems(r)) : RecipeItems(r)[k] = item})
    ELSE 0

RECURSIVE OccurrencesUpTo(_, _, _)
OccurrencesUpTo(recs, item, k) ==
    IF k = 0 THEN 0
    ELSE OccurrencesUpTo(recs, item, k - 1) + OccurrencesIn(recs[k], item)

\* The number of occurrences of item across the Built recipes.
Occurrences(item) == OccurrencesUpTo(recipes, item, Len(recipes))

\* C15: the reference count stored for each ledger item equals the number of
\* ingredient and product occurrences of that item across all Built recipes.
C15_CountIsOccurrences ==
    \A item \in DOMAIN known_items : known_items[item].count = Occurrences(item)

\* s and t hold the same recipes in the same states and order.
SameRecipes(s, t) ==
    /\ Len(s) = Len(t)
    /\ \A k \in 1..Len(s) : s[k].kind = t[k].kind /\ s[k] = t[k]

\* The step removes the Built recipe at index from the Built recipes, by
\* deleting it or by reopening it.
RemovesBuilt(index) ==
    /\ InRange(index)
    /\ IsBuilt(recipes[index])
    /\ \/ SameRecipes(recipes', RemoveAt(recipes, index))
       \/ SameRecipes(recipes', [recipes EXCEPT ![index] = PerformEdit(@)])

\* C16: when a Built recipe is deleted or reopened, an item that stays in the
\* ledger has its count decremented once per occurrence in that recipe, an
\* item leaves the ledger only if it has neither a target nor a raw cost, and
\* an item with a target or a raw cost stays with that annotation.
C16_AnnotatedStay ==
    [][\A index \in Indices :
          RemovesBuilt(index) =>
            \A item \in DOMAIN known_items :
                /\ item \in DOMAIN known_items' =>
                      known_items'[item].count =
                          known_items[item].count - OccurrencesIn(recipes[index], item)
                /\ (HasTarget(item) \/ HasRaw(item)) =>
                      /\ item \in DOMAIN known_items'
                      /\ known_items'[item].target = known_items[item].target
                      /\ known_items'[item].raw = known_items[item].raw]_known_items

\* C17: every item that occurs as an ingredient or product of a Built recipe
\* is a key of the ledger, and the expression build of Compute never ends
\* with the missing item error.
C17_LedgerCoversBuilt ==
    /\ \A i \in 1..Len(recipes) :
          IsBuilt(recipes[i]) =>
            \A k \in 1..Len(RecipeItems(recipes[i])) :
                RecipeItems(recipes[i])[k] \in DOMAIN known_items
    /\ BuildExpressions(recipes, known_items).tag # "Missing"

\* Two Built recipes share an item, one of them was built twice and the other
\* names a second item: the ledger holds both items.
C17_Witness ==
    /\ Len(recipes) = 2
    /\ AllBuilt
    /\ Occurrences("ingot") = 2
    /\ Occurrences("ore") = 1
    /\ known_items["ingot"].count = 2
    /\ HasTarget("ingot")
    /\ BuildExpressions(recipes, known_items).tag = "Ok"

----------------------------------------------------------------------------
(* Quantities, probabilities and the two states of an editable recipe *)

\* The quantities of the entries of the Built recipes.
BuiltQuantities ==
    UNION {{recipes[i].ingredients[k].qty : k \in 1..Len(recipes[i].ingredients)}
           \cup {recipes[i].products[k].qty : k \in 1..Len(recipes[i].products)} :
           i \in {j \in 1..Len(recipes) : IsBuilt(recipes[j])}}

\* The probabilities (in units of 1/Den) of the products of the Built recipes.
BuiltProbabilities ==
    UNION {{recipes[i].products[k].prob : k \in 1..Len(recipes[i].products)} :
           i \in {j \in 1..Len(recipes) : IsBuilt(recipes[j])}}

\* C18: Quantity::new(0) is None, parsing "0" yields the Zero error, and
\* every ingredient and product entry of every Recipe value has a quantity
\* in 1..=255: Recipe construction never yields a zero-quantity entry.
C18_NoZeroQuantity ==
    /\ QuantityNew(0) = None
    /\ QuantityFromStr(0).tag = "Zero"
    /\ BuiltQuantities \subseteq 1..MaxU8

\* C19: every product of every Built recipe has a probability p with
\* 0 < p <= 1; Probability::new accepts exactly the percentages 1..=100; and
\* Build turns the percentage k of a product line into the probability k/100.
C19_ProbabilityRange ==
    /\ [](/\ \A p \in BuiltProbabilities : 0 < p /\ p <= Den
          /\ \A k \in 0..MaxU8 : IsSome(ProbabilityNew(k)) <=> k \in 1..100)
    /\ [][(last'.kind = "Build" /\ ~IsBuilt(recipes[1])) =>
             /\ IsBuilt(recipes'[1])
             /\ Len(recipes'[1].products) = Len(recipes[1].products)
             /\ \A k \in 1..Len(recipes[1].products) :
                   recipes'[1].products[k].prob * 100
                       = recipes[1].products[k].proba.value * Den]_vars

\* A recipe built from a product line whose percentage is the smallest
\* accepted one.
C19_Witness ==
    /\ last.kind = "Build"
    /\ IsBuilt(recipes[1])
    /\ Len(recipes[1].products) = 1
    /\ recipes[1].products[1].prob * 100 = 1 * Den

\* C20: Build turns a Builder into the Built recipe it builds and leaves a
\* Built value unchanged; Edit turns a Built value into the Builder of its
\* recipe and leaves a Builder unchanged; a BuilderAction is applied to a
\* Builder, which stays a Builder, and leaves a Built value unchanged.
C20_TwoStates ==
    [][/\ last'.kind \in {"Build", "Edit", "BuilderAction"}
       /\ Len(recipes') = 1
       /\ last'.kind = "Build" =>
             /\ IsBuilt(recipes'[1])
             /\ recipes'[1] = IF IsBuilt(recipes[1]) THEN recipes[1]
                              ELSE BuilderStateBuild(recipes[1])
       /\ last'.kind = "Edit" =>
             /\ ~IsBuilt(recipes'[1])
             /\ recipes'[1] = IF IsBuilt(recipes[1]) THEN BuilderStateFromRecipe(recipes[1])
                              ELSE recipes[1]
       /\ last'.kind = "BuilderAction" =>
             /\ IsBuilt(recipes'[1]) <=> IsBuilt(recipes[1])
             /\ IF IsBuilt(recipes[1]) THEN recipes'[1] = recipes[1]
                ELSE \E a \in RecipeActions : recipes'[1] = BuilderPerform(recipes[1], a)]_vars

\* A Built recipe reopened by Edit: the Builder holds the lines of the recipe.
C20_Witness ==
    /\ last.kind = "Edit"
    /\ ~IsBuilt(recipes[1])
    /\ Len(recipes[1].products) = 1
    /\ recipes[1].products[1].qty = Content(MaxU8)
    /\ recipes[1].products[1].proba = Content(50)

----------------------------------------------------------------------------
(* BuilderState::perform *)

ProductOps == {"EditProdItem", "EditProdQty", "EditProdProba", "DelProd"}
IngredientOps == {"EditIngrItem", "EditIngrQty", "DelIngr"}
DeleteOps == {"DelProd", "DelIngr"}

\* The other lines of the list keep their place and the addressed line
\* changes in no other field than the one the action names.
OnlyLineEdited(op, index, before, after) ==
    /\ Len(after) = Len(before)
    /\ \A k \in 1..Len(before) : k # index => after[k] = before[k]
    /\ op \notin {"EditProdItem", "EditIngrItem"} => after[index].item = before[index].item
    /\ op \notin {"EditProdQty", "EditIngrQty"} => after[index].qty = before[index].qty
    /\ op \in ProductOps \ {"EditProdProba"} => after[index].proba = before[index].proba

\* Exactly the addressed line is gone and the others keep their order.
OnlyLineDeleted(index, before, after) ==
    /\ Len(after) = Len(before) - 1
    /\ \A k \in 1..Len(after) : after[k] = IF k < index THEN before[k] ELSE before[k + 1]

\* What perform(a) may do to the builder `before`, for an edit or a delete.
EditOrDeleteEffect(a, before, after) ==
    LET list(b) == IF a.op \in ProductOps THEN b.products ELSE b.ingredients
    IN  /\ a.op \in ProductOps => after.ingredients = before.ingredients
        /\ a.op \in IngredientOps => after.products = before.products
        /\ IF a.index \notin 1..Len(list(before))
           THEN after = before
           ELSE IF a.op \in DeleteOps
                THEN OnlyLineDeleted(a.index, list(before), list(after))
                ELSE OnlyLineEdited(a.op, a.index, list(before), list(after))

\* C21: an edit or delete action with an index out of range leaves the
\* builder unchanged; with a valid index it changes only the addressed line
\* (a delete removes exactly that line and keeps the order of the others);
\* product actions never change the ingredients and vice versa.
C21_OnlyAddressedLine ==
    [][\A a \in LineActions :
          (/\ a.op \in ProductOps \cup IngredientOps
           /\ recipes'[1] = BuilderPerform(recipes[1], a))
          => EditOrDeleteEffect(a, recipes[1], recipes'[1])]_vars

\* A builder with three ingredient lines and two product lines, the second
\* ingredient line edited.
C21_Witness ==
    /\ Len(recipes[1].ingredients) = 3
    /\ Len(recipes[1].products) = 2
    /\ recipes[1].ingredients[1].qty = Content(DefaultQuantity)
    /\ recipes[1].ingredients[2].qty = Content(2)
    /\ recipes[1].ingredients[3].qty = Content(DefaultQuantity)
    /\ ~recipes[1].products[2].proba.valid

----------------------------------------------------------------------------
(* Annotations *)

\* The step leaves the recipes, the ledger keys, every entry other than the
\* one of `item` and the count of `item` as they are.
OnlyAnnotationsOf(item) ==
    /\ SameRecipes(recipes', recipes)
    /\ DOMAIN known_items' = DOMAIN known_items
    /\ \A other \in DOMAIN known_items : other # item => known_items'[other] = known_items[other]
    /\ item \in DOMAIN known_items => known_items'[item].count = known_items[item].count

\* What a toggle does to one annotation: off clears it, on keeps an amount
\* that is set and sets some amount otherwise.
Toggled(toggle, before, after) ==
    IF toggle THEN IsSome(after) /\ (IsSome(before) => after = before)
    ELSE after = None

\* What an edit does to one annotation: nothing when it is off.
AmountEdited(before, after) == IsSome(after) <=> IsSome(before)

\* C23: ToggleTarget and EditTargetAmount change only the target of the
\* named item, ToggleRaw and EditRawCost only its raw cost; counts, the other
\* annotation, the other items and the recipes are unchanged; toggling on an
\* annotation that is set keeps its amount, editing an amount whose toggle is
\* off changes nothing, and an item absent from the ledger leaves it unchanged.
C23_IndependentAnnotations ==
    [][\A item \in Items :
          /\ \A toggle \in BOOLEAN :
                /\ MsgToggleTarget(item, toggle) =>
                      /\ OnlyAnnotationsOf(item)
                      /\ item \in DOMAIN known_items =>
                            /\ known_items'[item].raw = known_items[item].raw
                            /\ Toggled(toggle, known_items[item].target,
                                       known_items'[item].target)
                /\ MsgToggleRaw(item, toggle) =>
                      /\ OnlyAnnotationsOf(item)
                      /\ item \in DOMAIN known_items =>
                            /\ known_items'[item].target = known_items[item].target
                            /\ Toggled(toggle, known_items[item].raw,
                                       known_items'[item].raw)
          /\ \A val \in ScenarioAmounts :
                /\ MsgEditTargetAmount(item, Some(val)) =>
                      /\ OnlyAnnotationsOf(item)
                      /\ item \in DOMAIN known_items =>
                            /\ known_items'[item].raw = known_items[item].raw
                            /\ AmountEdited(known_items[item].target,
                                            known_items'[item].target)
                /\ MsgEditRawCost(item, Some(val)) =>
                      /\ OnlyAnnotationsOf(item)
                      /\ item \in DOMAIN known_items =>
                            /\ known_items'[item].target = known_items[item].target
                            /\ AmountEdited(known_items[item].raw,
                                            known_items'[item].raw)]_vars

\* An item that carries a target and a raw cost of different amounts, none of
\* them the default one.
C23_Witness ==
    /\ last.kind = "Change"
    /\ "ingot" \in DOMAIN known_items
    /\ HasTarget("ingot") /\ TargetOf("ingot") = 10
    /\ HasRaw("ingot") /\ RawOf("ingot") = 3
    /\ ~HasTarget("ore") /\ ~HasRaw("ore")

----------------------------------------------------------------------------
(* Shape of a stored solution *)

\* C24: recipe_uses is present exactly when item_stats is; when they are,
\* every recipe is Built, recipe_uses has one entry per recipe and the keys of
\* item_stats are the keys of the ledger.
C24_SolutionAligned ==
    /\ IsSome(recipe_uses) <=> IsSome(item_stats)
    /\ IsSome(recipe_uses) =>
          /\ AllBuilt
          /\ DOMAIN Unwrap(recipe_uses) = 1..Len(recipes)
          /\ DOMAIN Unwrap(item_stats) = DOMAIN known_items

\* A solution stored for a collection of one recipe and a ledger of one item.
C24_Witness ==
    /\ IsSome(recipe_uses)
    /\ IsSome(item_stats)
    /\ Len(recipes) = 1
    /\ DOMAIN known_items = {"ingot"}
    /\ Produced("ingot") > 0

----------------------------------------------------------------------------
(* Build, Edit and Delete *)

\* C25: the ledger contains no item that occurs in no Built recipe.
C25_NoOrphanItem ==
    \A item \in DOMAIN known_items : Occurrences(item) > 0

\* C26: a Build message for a recipe that is already Built changes neither
\* the recipes nor any ledger entry.
C26_BuildOfBuiltIdle ==
    [][\A index \in Indices :
          (InRange(index) /\ IsBuilt(recipes[index]) /\ MsgBuild(index)) =>
              /\ SameRecipes(recipes', recipes)
              /\ known_items' = known_items]_vars

\* The quantities and probabilities of r are those a builder can hold.
BuildableRecipe(r) ==
    /\ \A k \in 1..Len(r.ingredients) : r.ingredients[k].qty \in 1..MaxU8
    /\ \A k \in 1..Len(r.products) :
          /\ r.products[k].qty \in 1..MaxU8
          /\ \E percent \in 1..MaxPercent : r.products[k].prob * 100 = percent * Den

\* C27: for every recipe r with quantities in 1..=255 and probabilities that
\* are whole percentages 1..=100, BuilderState::from_recipe(r).build() has the
\* ingredient and product lists of r.
C27_RoundTrip ==
    \A i \in 1..Len(recipes) :
        (IsBuilt(recipes[i]) /\ BuildableRecipe(recipes[i])) =>
            LET rebuilt == BuilderStateBuild(BuilderStateFromRecipe(recipes[i]))
            IN  /\ rebuilt.ingredients = recipes[i].ingredients
                /\ rebuilt.products = recipes[i].products

\* A recipe of two ingredients and two products with the largest quantity and
\* a probability of one half in the first places.
C27_Witness ==
    /\ last.kind = "Construct"
    /\ BuildableRecipe(recipes[1])
    /\ Len(recipes[1].ingredients) = 2
    /\ recipes[1].ingredients[1].qty = MaxU8
    /\ recipes[1].ingredients[2].qty = 1
    /\ Len(recipes[1].products) = 2
    /\ recipes[1].products[1].prob * 100 = 50 * Den
    /\ recipes[1].products[2].prob * 100 = MaxPercent * Den

\* C28: an Edit of a Built recipe followed at once by a Build of the same
\* index gives back the recipe, the ledger keys, the counts and the
\* annotations that were there before the Edit.
C28_EditBuildRestores ==
    [][\A index \in Indices :
          (InRange(index) /\ IsBuilt(recipes[index]) /\ MsgEdit(index)) =>
              LET rebuilt == PerformBuild(recipes'[index])
              IN  /\ rebuilt = recipes[index]
                  /\ add_recipe_items(known_items', rebuilt) = known_items]_known_items

\* item is the item of an ingredient or product line of r.
ReferencedBy(r, item) ==
    \/ \E k \in 1..Len(r.ingredients) : r.ingredients[k].item = item
    \/ \E k \in 1..Len(r.products) : r.products[k].item = item

\* The ledger entry of item, or None when it has none.
EntryOf(ledger, item) == IF item \in DOMAIN ledger THEN Some(ledger[item]) ELSE None

\* The recipes of s and t are in the same states (Built or Builder), place
\* by place.
SameKinds(s, t) ==
    \A k \in 1..Len(s) : s[k].kind = t[k].kind

\* C29: Delete with a valid index removes exactly the recipe at that index,
\* keeps the others in order and changes ledger entries only for items the
\* deleted recipe references; Delete, Edit, Build and Action with an index out
\* of range leave recipes and ledger unchanged; AddRecipe appends one empty
\* Builder and leaves the ledger unchanged.
C29_DeleteFrame ==
    [][/\ \A index \in Indices :
            /\ (/\ InRange(index)
                /\ Len(recipes') = Len(recipes) - 1
                /\ MsgDelete(index)) =>
                  /\ \A k \in 1..Len(recipes') :
                        LET old == IF k < index THEN recipes[k] ELSE recipes[k + 1]
                        IN  recipes'[k].kind = old.kind /\ recipes'[k] = old
                  /\ \A item \in LedgerItems :
                        ~ReferencedBy(recipes[index], item) =>
                            EntryOf(known_items', item) = EntryOf(known_items, item)
            /\ (/\ ~InRange(index)
                /\ Len(recipes') = Len(recipes)
                /\ SameKinds(recipes', recipes)
                /\ \/ MsgDelete(index)
                   \/ MsgEdit(index)
                   \/ MsgBuild(index)
                   \/ \E a \in LedgerActions : MsgAction(index, a)) =>
                  /\ SameRecipes(recipes', recipes)
                  /\ known_items' = known_items
       /\ (/\ Len(recipes') = Len(recipes) + 1
           /\ MsgAddRecipe) =>
            /\ \A k \in 1..Len(recipes) :
                  recipes'[k].kind = recipes[k].kind /\ recipes'[k] = recipes[k]
            /\ recipes'[Len(recipes')] = BuilderStateNew
            /\ known_items' = known_items]_vars

\* Two recipes were built on different items and the first was deleted: the
\* second is now the first and the item of the deleted one is gone.
C29_Witness ==
    /\ Len(recipes) = 1
    /\ IsBuilt(recipes[1])
    /\ ReferencedBy(recipes[1], "ore")
    /\ ~ReferencedBy(recipes[1], "ingot")
    /\ DOMAIN known_items = {"ore"}
    /\ HasRaw("ore")

----------------------------------------------------------------------------
(* Save, Open and the save popup *)

\* The last message was an Open that replaced the application by the file.
Opened == last.kind = "Open" /\ import_error = None

\* The step is a Save that wrote the file.
SaveWrote == last'.kind = "Save" /\ save_error' = None

\* C22 as stated: the snapshot holds no cached solve result, so after Save and
\* Open of the same file recipe_uses and item_stats are None.
C22_NoCachedResult == Opened => (recipe_uses = None /\ item_stats = None)

\* C22, amended: the snapshot holds the recipes, the ledger with its counts
\* and annotation values, the scale, the stored error and the cached solve
\* result: a Save writes all of them as they are, and the state after an Open
\* of the file is the one the file holds, recipe_uses and item_stats included.
C22_SolveResultPersisted ==
    /\ [](Opened =>
             LET value == Unwrap(disk[Unwrap(path)])
             IN  /\ recipe_uses = value.recipe_uses
                 /\ item_stats = value.item_stats
                 /\ error = value.error
                 /\ scale = value.scale
                 /\ CloneIntoSave = value
                 /\ ~unsaved_changes)
    /\ [][SaveWrote =>
             LET app == AppFromSave(Unwrap(disk'[Unwrap(path')]), Unwrap(path'))
             IN  /\ app.recipe_uses = recipe_uses
                 /\ app.item_stats = item_stats
                 /\ app.error = error
                 /\ app.scale = scale
                 /\ app.recipes = recipes
                 /\ app.known_items = known_items]_vars

\* A file saved with a target and its solution was opened: the solution that
\* runs the recipe once is back.
C22_Witness ==
    /\ Opened
    /\ FileItem \in DOMAIN known_items
    /\ HasTarget(FileItem)
    /\ IsSome(recipe_uses)
    /\ IsSome(item_stats)
    /\ \E k \in 1..Len(Unwrap(recipe_uses)) : Unwrap(recipe_uses)[k] > 0

\* The actions the popup can hold: closing the window and opening a file.
Guarded == {CloseMsg} \cup {OpenMsg(p) : p \in PickedPaths}

\* The step hands m to the runtime, after taking from it the message it
\* processes if that one came from the runtime.
Sends(m) ==
    \/ pending' = Append(pending, m)
    \/ /\ pending # << >>
       /\ last'.kind = Head(pending).kind
       /\ pending' = Append(Tail(pending), m)

\* The step processes a close request or a file chosen in the Open dialog.
Requests(m) ==
    \/ m = CloseMsg /\ last'.kind = "CloseRequest"
    \/ m # CloseMsg /\ last'.kind = "OpenButton" /\ (save_popup' = Some(m) \/ Sends(m))

\* The step closes the window or replaces the state by a file.
Executes == last'.kind = "Close" \/ (last'.kind = "Open" /\ import_error' = None)

\* A request made with unsaved changes is held in the popup and nothing else
\* happens; one made without is handed to the runtime at once.
HeldOrSentAtOnce ==
    \A m \in Guarded :
        Requests(m) =>
            IF unsaved_changes
            THEN /\ save_popup' = Some(m)
                 /\ pending' = pending
                 /\ closed' = closed
                 /\ recipes' = recipes
                 /\ known_items' = known_items
                 /\ scale' = scale
                 /\ unsaved_changes'
            ELSE /\ pending' = Append(pending, m)
                 /\ save_popup' = save_popup

\* A guarded action reaches the runtime only from a request made without
\* unsaved changes or from SaveDone, which takes it out of the popup.
SentOnlyBySaveDone ==
    \A m \in Guarded :
        Sends(m) =>
            \/ Requests(m) /\ ~unsaved_changes
            \/ last'.kind = "SaveDone" /\ save_popup = Some(m) /\ save_popup' = None

\* PopupCancel empties the popup and hands nothing to the runtime.
CancelDrops ==
    last'.kind = "PopupCancel" => (save_popup' = None /\ pending' = pending)

\* The popup holds and releases the guarded actions: what each step does.
PopupSteps == HeldOrSentAtOnce /\ SentOnlyBySaveDone /\ CancelDrops

PopupDiscipline == [][PopupSteps]_vars

\* C30: a close request or a file open made with unsaved changes is held as
\* the single popup action, released only by SaveDone and dropped by
\* PopupCancel, and one made without unsaved changes is dispatched at once;
\* hence the window is never closed and the state never replaced by Open
\* while unsaved changes exist, unless the user chose "Don't save".
C30_NoLossWithoutConsent ==
    [][PopupSteps /\ (Executes => (~unsaved_changes \/ dont_save))]_vars

\* The step processes the Save message at the head of the queue.
SaveStep == pending # << >> /\ Head(pending).kind = "Save" /\ last'.kind = "Save"

\* C31: a Save whose write fails sets save_error, keeps path and
\* unsaved_changes, sends no SaveDone and leaves the popup action where it
\* is, unexecuted; a Save whose write succeeds sets path to the saved path,
\* clears unsaved_changes and sends SaveDone exactly once.
C31_SaveOutcome ==
    [][SaveStep =>
          IF save_error' # None
          THEN /\ path' = path
               /\ unsaved_changes' = unsaved_changes
               /\ pending' = Tail(pending)
               /\ save_popup' = save_popup
               /\ closed' = closed
               /\ SameRecipes(recipes', recipes)
               /\ known_items' = known_items
          ELSE /\ path' = Some(SetExtension(Head(pending).msg[1]))
               /\ disk'[Unwrap(path')] = Some(CloneIntoSave)
               /\ ~unsaved_changes'
               /\ pending' = Append(Tail(pending), SaveDoneMsg)
               /\ save_popup' = save_popup]_vars

\* A Save asked from the popup failed: the close request is still held, the
\* changes are still unsaved and the window is open.
C31_Witness ==
    /\ last.kind = "Save"
    /\ save_error # None
    /\ save_popup = Some(CloseMsg)
    /\ unsaved_changes
    /\ pending = << >>
    /\ ~closed

\* The file of path exists and decodes: it holds what was last saved to it or
\* loaded from it.
SavedFileReadable ==
    /\ path # None
    /\ disk[Unwrap(path)] # None
    /\ Unwrap(disk[Unwrap(path)]).parses

\* C32: whenever what Save would write differs from what was last saved or
\* loaded, unsaved_changes is true, also after Compute and ComputeError; and
\* unsaved_changes becomes false only by a Save that wrote the file or an Open
\* that loaded one.
C32_UnsavedTracksChanges ==
    /\ []((SavedFileReadable /\ CloneIntoSave # Unwrap(disk[Unwrap(path)]))
             => unsaved_changes)
    /\ [][(unsaved_changes /\ ~unsaved_changes') =>
             \/ last'.kind = "Save" /\ save_error' = None
             \/ last'.kind = "Open" /\ import_error' = None]_vars

----------------------------------------------------------------------------
(* Errors of Compute and of Open *)

\* The error messages a Compute that reads recs and ledger can send.
ComputeErrors(recs, ledger) ==
    LET built == BuildExpressions(recs, ledger)
    IN  CASE built.tag = "NotBuilt" -> {<<"One of the recipies is not build.">>}
          [] built.tag = "Missing" ->
                {<<"Internal error: no expression found for item", built.item>>}
          [] built.tag = "Ok" ->
                LET outs == Solve(Compile(Len(recs), ledger, built.exprs))
                IN  {<<"Could not solve:", out.err>> : out \in {o \in outs : o.tag = "Err"}}
                    \cup {<<"Solution is not optimal.", out.status>> :
                             out \in {o \in outs : o.tag = "Ok" /\ o.status # "Optimal"}}

\* C33: whenever an error is stored, the recipes and the ledger are the ones
\* the failing Compute read: the error is one that a Compute of the present
\* recipes and ledger sends, not one left from inputs that have changed since.
C33_ErrorOfPresentInputs ==
    error # None => Unwrap(error) \in ComputeErrors(recipes, known_items)

\* The step handles an Open that the runtime delivers.
OpenStep == pending # << >> /\ Head(pending).kind = "Open" /\ last'.kind = "Open"

\* The file that the delivered Open names holds a document that decodes.
OpenedFileReadable ==
    LET file == disk[Head(pending).msg[1]]
    IN  file # None /\ Unwrap(file).parses

\* C34: an Open of a file that is missing or does not decode sets import_error
\* and leaves recipes, ledger, solution, scale, path and unsaved_changes as they
\* were; an Open that succeeds leaves the document that the file holds, with
\* unsaved_changes false, no popup and path the opened file.  No message leaves
\* an import_error or a save_error other than its own.
C34_OpenOutcome ==
    [][/\ OpenStep =>
            IF OpenedFileReadable
            THEN /\ CloneIntoSaveOf(recipes', known_items', error', recipe_uses',
                                    item_stats', scale')
                       = Unwrap(disk[Head(pending).msg[1]])
                 /\ ~unsaved_changes'
                 /\ save_popup' = None
                 /\ path' = Some(Head(pending).msg[1])
                 /\ import_error' = None
            ELSE /\ import_error' # None
                 /\ SameRecipes(recipes', recipes)
                 /\ known_items' = known_items
                 /\ error' = error
                 /\ recipe_uses' = recipe_uses
                 /\ item_stats' = item_stats
                 /\ scale' = scale
                 /\ path' = path
                 /\ unsaved_changes' = unsaved_changes
       /\ last'.kind # "Open" => import_error' = None
       /\ last'.kind # "Save" => save_error' = None]_vars

\* An Open has failed on a file that does not decode, and the edited document
\* is still there.
C34_Witness ==
    /\ last.kind = "Open"
    /\ import_error = Some("ParseError")
    /\ unsaved_changes
    /\ recipes # << >>
    /\ path # None

----------------------------------------------------------------------------
(* Save followed by Open *)

\* The values of a field before and after are the same.
SameValue(c, d) == IntoValue(c) = IntoValue(d)

\* r and q are in the same state and hold the same entries.
SameEntries(r, q) ==
    /\ r.kind = q.kind
    /\ IF IsBuilt(r) THEN r = q
       ELSE /\ Len(r.ingredients) = Len(q.ingredients)
            /\ Len(r.products) = Len(q.products)
            /\ \A k \in 1..Len(r.ingredients) :
                    /\ r.ingredients[k].item = q.ingredients[k].item
                    /\ SameValue(r.ingredients[k].qty, q.ingredients[k].qty)
            /\ \A k \in 1..Len(r.products) :
                    /\ r.products[k].item = q.products[k].item
                    /\ SameValue(r.products[k].qty, q.products[k].qty)
                    /\ SameValue(r.products[k].proba, q.products[k].proba)

\* The annotations a and b are both absent, or both present with one value.
SameAnnotation(a, b) ==
    /\ IsSome(a) = IsSome(b)
    /\ IsSome(a) => SameValue(Unwrap(a), Unwrap(b))

\* The step opens the file of the document, which has no change since it was
\* saved there.
OpensSaved ==
    /\ OpenStep
    /\ ~unsaved_changes
    /\ path = Some(Head(pending).msg[1])

----------------------------------------------------------------------------
(* The Compute button of the view *)

\* The items that have a target, and those that have a raw cost.
targets == {item \in DOMAIN known_items : IsSome(known_items[item].target)}
raws == {item \in DOMAIN known_items : IsSome(known_items[item].raw)}

all_targets_ok ==
    /\ Cardinality(targets) > 0
    /\ \A item \in targets : Unwrap(known_items[item].target).valid
all_raws_ok ==
    /\ Cardinality(raws) > 0
    /\ \A item \in raws : Unwrap(known_items[item].raw).valid
all_recipes_ok ==
    /\ Len(recipes) > 0
    /\ \A k \in 1..Len(recipes) : IsBuilt(recipes[k])

\* on_press_maybe of the Compute button: the view offers Message::Compute.
ComputeOffered == error = None /\ all_recipes_ok /\ all_targets_ok /\ all_raws_ok

\* A planning scenario: finalized recipes, at least one target, and every
\* target and raw cost a valid amount; raw materials are optional.
PlanningScenario ==
    /\ error = None
    /\ all_recipes_ok
    /\ all_targets_ok
    /\ \A item \in raws : Unwrap(known_items[item].raw).valid

\* C36: Compute is offered only when no error is stored, there is a recipe
\* and all recipes are Built, there is a target and all targets are valid,
\* there is a raw cost and all raw costs are valid; and it is offered in every
\* planning scenario, those without a raw material included.
C36_ComputeOffered ==
    /\ ComputeOffered =>
            /\ error = None
            /\ Len(recipes) > 0 /\ AllBuilt
            /\ targets # {}
            /\ \A item \in targets : Unwrap(known_items[item].target).valid
            /\ raws # {}
            /\ \A item \in raws : Unwrap(known_items[item].raw).valid
    /\ PlanningScenario => ComputeOffered

----------------------------------------------------------------------------
(* The lookup table of a RecipeBank *)

\* The indices of the recipes of the bank that have item among their products.
Producers(item) ==
    {k - 1 : k \in {i \in 1..Len(bank.recipes) :
                      \E j \in 1..Len(bank.recipes[i].products) :
                          bank.recipes[i].products[j].item = item}}

\* The number of products of the recipe of index id that are item.
ProductEntries(item, id) ==
    Cardinality({j \in 1..Len(bank.recipes[id + 1].products) :
                    bank.recipes[id + 1].products[j].item = item})

Increasing(s) == \A i, j \in 1..Len(s) : i < j => s[i] < s[j]

\* The table lists for every item the indices of its producers, increasing
\* and each once; an item that no recipe produces has no entry.
TableListsProducers ==
    \A item \in LedgerItems :
        IF Producers(item) = {}
        THEN item \notin DOMAIN bank.table
        ELSE /\ item \in DOMAIN bank.table
             /\ {bank.table[item][j] : j \in 1..Len(bank.table[item])} = Producers(item)
             /\ Increasing(bank.table[item])

\* C37: the k-th added recipe has index k-1 for ever, and the table lists for
\* every item exactly the indices of the recipes that have it among their
\* products, in increasing order and each index once; items that are only
\* ingredients have no entry.
C37_BankIndex ==
    /\ [][\E recipe \in BankRecipes : bank'.recipes = Append(bank.recipes, recipe)]_vars
    /\ []TableListsProducers

====
